---- MODULE Spec2Model ----
(***************************************************************************)
(* Model of the text-repair layer of the prompt-to-React-site generator:   *)
(* fenced-block extraction (code_utils.extract_code_and_css, extract_code  *)
(* and their duplicates in workflow.py), the import filter (clean_imports) *)
(* and the style normalizer (css_utils.clean_css and its duplicate in      *)
(* workflow.py).  Text is a sequence of one-character strings, and the     *)
(* regular expressions of the source are modelled by what the Python re    *)
(* engine does with them (leftmost match, greedy/lazy quantifiers,         *)
(* non-overlapping findall and sub).                                       *)
(***************************************************************************)

EXTENDS Integers, Sequences, FiniteSets, TLC

VARIABLES
    segs,       \* the response as it was composed: a sequence of segments
    text,       \* the response text handed to the extractor (characters)
    pc,         \* which operation has been applied: "input" before any
    js_code,    \* code result of the applied extractor
    css_code,   \* style result of the applied extractor
    code,       \* code text handed to the import filter
    cleaned,    \* clean_imports(code)
    recleaned,  \* clean_imports(clean_imports(code)), the caller's second pass
    css_in,     \* style text handed to clean_css
    css_lines,  \* clean_css: lines, the style text split on "\n"
    line_no,    \* clean_css: 1-based position of the loop in css_lines
    fixed_lines,  \* clean_css: the lines emitted so far
    in_rule,      \* clean_css: a selector line has been seen and not closed
    in_media,     \* clean_css: initialised FALSE (line 15)
    in_keyframes, \* clean_css: initialised FALSE (line 16)
    brace_count,  \* clean_css: the rule depth
    result,     \* clean_css(css_in)
    result2,    \* clean_css(clean_css(css_in))
    variant,    \* which copy of the generation code runs: "workflow" (the
                \* graph of workflow.py) or "modular" (component_generator.py,
                \* page_generator.py, project_compiler.py)
    answers,    \* the outcomes a call of the language model may have
    state,      \* state[r]: the AgentState of run r and the run's position
    files,      \* the archive files on disk: path -> the run that wrote it
    now         \* time.time(), in whole seconds

styleVars == <<css_in, css_lines, line_no, fixed_lines, in_rule, in_media,
               in_keyframes, brace_count, result, result2>>

vars == <<segs, text, pc, js_code, css_code, code, cleaned, recleaned,
          css_in, css_lines, line_no, fixed_lines, in_rule, in_media,
          in_keyframes, brace_count, result, result2,
          variant, answers, state, files, now>>

runVars == <<variant, answers, state, files, now>>

\* no generation run is modelled
RunIdle ==
    /\ variant = "none"
    /\ answers = {}
    /\ state = <<>>
    /\ files = <<>>
    /\ now = 0

\* no style text is being normalised
StyleIdle ==
    /\ css_in = <<>>
    /\ css_lines = <<>>
    /\ line_no = 0
    /\ fixed_lines = <<>>
    /\ in_rule = FALSE
    /\ in_media = FALSE
    /\ in_keyframes = FALSE
    /\ brace_count = 0
    /\ result = <<>>
    /\ result2 = <<>>

(***************************************************************************)
(* Characters and Python's str primitives                                  *)
(***************************************************************************)
\* the backtick character (the lexer of TLA+ has no string literal for it)
BT == "BACKTICK"
NL == "\n"
CR == "\r"
SP == " "
TAB == "\t"
FF == "\f"

LowerLetters == <<"a","b","c","d","e","f","g","h","i","j","k","l","m",
                  "n","o","p","q","r","s","t","u","v","w","x","y","z">>
UpperLetters == <<"A","B","C","D","E","F","G","H","I","J","K","L","M",
                  "N","O","P","Q","R","S","T","U","V","W","X","Y","Z">>

\* the character class [a-zA-Z]
Letters == {LowerLetters[i] : i \in 1..26} \cup {UpperLetters[i] : i \in 1..26}
IsLetter(c) == c \in Letters

\* str.lower() on one character
LowerChar(c) ==
    IF \E i \in 1..26 : UpperLetters[i] = c
    THEN LowerLetters[CHOOSE i \in 1..26 : UpperLetters[i] = c]
    ELSE c

\* str.lower()
LowerStr(s) == [i \in 1..Len(s) |-> LowerChar(s[i])]

\* the characters str.strip() removes (the ASCII ones used here)
Whitespace == {SP, NL, CR, TAB, FF}

\* the line boundaries of str.splitlines() (the ASCII ones used here)
LineBreaks == {NL, CR, FF}

\* str.strip()
Strip(s) ==
    LET keep == {i \in 1..Len(s) : s[i] \notin Whitespace}
    IN  IF keep = {} THEN <<>>
        ELSE LET lo == CHOOSE i \in keep : \A j \in keep : i <= j
                 hi == CHOOSE i \in keep : \A j \in keep : i >= j
             IN  SubSeq(s, lo, hi)

\* s[i-1:].startswith(p), with 1-based i
StartsWithAt(s, i, p) ==
    /\ i >= 1
    /\ i + Len(p) - 1 <= Len(s)
    /\ (Len(p) > 0 => s[i] = p[1])
    /\ \A k \in 2..Len(p) : s[i + k - 1] = p[k]

\* str.find(p, from): the least index >= from where p occurs, 0 when none
Find(s, p, from) ==
    LET hits == {i \in from..(Len(s) - Len(p) + 1) : StartsWithAt(s, i, p)}
    IN  IF hits = {} THEN 0 ELSE CHOOSE i \in hits : \A j \in hits : i <= j

\* the substring test: p in s
Contains(s, p) == Find(s, p, 1) # 0

RECURSIVE ReplaceFrom(_, _, _, _)
\* str.replace(old, new) from index i on: left to right, non-overlapping
ReplaceFrom(s, i, old, new) ==
    LET m == Find(s, old, i)
    IN  IF m = 0 THEN SubSeq(s, i, Len(s))
        ELSE SubSeq(s, i, m - 1) \o new \o ReplaceFrom(s, m + Len(old), old, new)

\* str.replace(old, new)
Replace(s, old, new) == ReplaceFrom(s, 1, old, new)

\* the least index >= i of s that holds a character of the set cs, 0 when none
FindAny(s, cs, i) ==
    LET hits == {k \in i..Len(s) : s[k] \in cs}
    IN  IF hits = {} THEN 0 ELSE CHOOSE k \in hits : \A j \in hits : k <= j

RECURSIVE SplitLinesFrom(_, _)
\* str.splitlines() from index i on: "\r\n" is one boundary, and no empty line
\* follows a final boundary
SplitLinesFrom(s, i) ==
    IF i > Len(s) THEN <<>>
    ELSE LET b == FindAny(s, LineBreaks, i)
         IN  IF b = 0 THEN <<SubSeq(s, i, Len(s))>>
             ELSE <<SubSeq(s, i, b - 1)>>
                      \o SplitLinesFrom(s, IF s[b] = CR /\ b + 1 <= Len(s) /\ s[b + 1] = NL
                                            THEN b + 2 ELSE b + 1)

\* str.splitlines()
SplitLines(s) == SplitLinesFrom(s, 1)

RECURSIVE SplitRange(_, _, _, _)
\* s[lo..hi].split(c): the text is cut at a separator near its middle and the
\* pieces of the two halves follow one another
SplitRange(s, lo, hi, c) ==
    LET mid == (lo + hi) \div 2
        up == {k \in mid..hi : s[k] = c}
        down == {k \in lo..(mid - 1) : s[k] = c}
    IN  IF lo > hi THEN << <<>> >>
        ELSE IF up = {} /\ down = {} THEN <<SubSeq(s, lo, hi)>>
        ELSE LET b == IF up # {} THEN CHOOSE k \in up : \A j \in up : k <= j
                      ELSE CHOOSE k \in down : \A j \in down : k >= j
             IN  SplitRange(s, lo, b - 1, c) \o SplitRange(s, b + 1, hi, c)

\* the lines of a text as "\n" alone separates them: str.split("\n")
SplitOnFrom(s, i, c) == SplitRange(s, i, Len(s), c)

LinesOf(s) == SplitOnFrom(s, 1, NL)

RECURSIVE JoinRange(_, _, _, _)
\* sep.join(lines[lo..hi]), the two halves joined one after the other
JoinRange(lines, lo, hi, sep) ==
    IF lo > hi THEN <<>>
    ELSE IF lo = hi THEN lines[lo]
         ELSE LET mid == (lo + hi) \div 2
              IN  JoinRange(lines, lo, mid, sep) \o sep \o JoinRange(lines, mid + 1, hi, sep)

JoinFrom(lines, i, sep) == JoinRange(lines, i, Len(lines), sep)

\* "\n".join(lines)
JoinNL(lines) == JoinFrom(lines, 1, <<NL>>)

(***************************************************************************)
(* String constants of the source                                          *)
(***************************************************************************)
Fence == <<BT, BT, BT>>
FenceNL == <<BT, BT, BT, NL>>

T_js == <<"j","s">>
T_jsx == <<"j","s","x">>
T_javascript == <<"j","a","v","a","s","c","r","i","p","t">>
T_typescript == <<"t","y","p","e","s","c","r","i","p","t">>
T_tsx == <<"t","s","x">>
T_ts == <<"t","s">>
T_react == <<"r","e","a","c","t">>
T_css == <<"c","s","s">>
T_scss == <<"s","c","s","s">>
T_sass == <<"s","a","s","s">>
T_less == <<"l","e","s","s">>

\* code_utils.py line 10
CodeTags == {T_js, T_jsx, T_javascript, T_typescript, T_tsx, T_ts, T_react}
\* code_utils.py line 12
StyleTags == {T_css, T_scss, T_sass, T_less}
\* workflow.py line 88
WfCodeTags == {T_js, T_jsx, T_javascript}

S_import == <<"i","m","p","o","r","t">>
S_classAttr == <<" ","c","l","a","s","s","=">>
S_classNameAttr == <<" ","c","l","a","s","s","N","a","m","e","=">>
S_classDq == <<"\"","c","l","a","s","s","\"">>
S_classNameDq == <<"\"","c","l","a","s","s","N","a","m","e","\"">>
S_classSq == <<"'","c","l","a","s","s","'">>
S_classNameSq == <<"'","c","l","a","s","s","N","a","m","e","'">>

F_headlessui == <<"@","h","e","a","d","l","e","s","s","u","i","/","r","e","a","c","t">>
F_heroicons == <<"@","h","e","r","o","i","c","o","n","s","/","r","e","a","c","t">>
F_react_bootstrap == <<"r","e","a","c","t","-","b","o","o","t","s","t","r","a","p">>
F_react_icons == <<"r","e","a","c","t","-","i","c","o","n","s">>
F_react_bootstrap_icons == <<"r","e","a","c","t","-","b","o","o","t","s","t","r","a","p","-","i","c","o","n","s">>
F_fortawesome == <<"@","f","o","r","t","a","w","e","s","o","m","e">>
F_font_awesome == <<"f","o","n","t","-","a","w","e","s","o","m","e">>
F_react_fontawesome == <<"r","e","a","c","t","-","f","o","n","t","a","w","e","s","o","m","e">>
F_antd == <<"a","n","t","d">>
F_material_ui == <<"m","a","t","e","r","i","a","l","-","u","i">>
F_mui_material == <<"@","m","u","i","/","m","a","t","e","r","i","a","l">>
F_semantic_ui_react == <<"s","e","m","a","n","t","i","c","-","u","i","-","r","e","a","c","t">>
F_chakra_ui == <<"c","h","a","k","r","a","-","u","i">>

\* code_utils.py lines 40-45
forbidden_imports ==
    <<F_headlessui, F_heroicons, F_react_bootstrap, F_react_icons,
      F_react_bootstrap_icons, F_fortawesome, F_font_awesome,
      F_react_fontawesome, F_antd, F_material_ui, F_mui_material,
      F_semantic_ui_react, F_chakra_ui>>

(***************************************************************************)
(* Block extractor: code_utils.py                                          *)
(***************************************************************************)
RECURSIVE SkipLetters(_, _)
\* [a-zA-Z]* from index i: the first index that holds no letter
SkipLetters(s, i) ==
    IF i <= Len(s) /\ IsLetter(s[i]) THEN SkipLetters(s, i + 1) ELSE i

\* One attempt of ```([a-zA-Z]*)\n([\s\S]*?)``` at index i: <<lang, block, end>>
\* with end the index after the match, or <<>> when the pattern fails there.
\* The greedy tag has one way to be followed by the newline, and the lazy body
\* ends at the first closing fence.
BlockMatchAt(s, i) ==
    IF ~StartsWithAt(s, i, Fence) THEN <<>>
    ELSE LET k == SkipLetters(s, i + 3)
         IN  IF k > Len(s) \/ s[k] # NL THEN <<>>
             ELSE LET e == Find(s, Fence, k + 1)
                  IN  IF e = 0 THEN <<>>
                      ELSE <<SubSeq(s, i + 3, k - 1), SubSeq(s, k + 1, e - 1), e + 3>>

RECURSIVE FindAllFrom(_, _)
\* re.findall from index i on: leftmost matches, non-overlapping (the pattern
\* can only match where a fence starts)
FindAllFrom(s, i) ==
    LET o == Find(s, Fence, i)
    IN  IF o = 0 THEN <<>>
        ELSE LET m == BlockMatchAt(s, o)
             IN  IF Len(m) = 0 THEN FindAllFrom(s, o + 1)
                 ELSE <<[lang |-> m[1], block |-> m[2]]>> \o FindAllFrom(s, m[3])

\* re.findall(r"```([a-zA-Z]*)\n([\s\S]*?)```", text)
code_blocks(s) == FindAllFrom(s, 1)

RECURSIVE UntaggedSearchFrom(_, _)
\* the search below from index i on: the leftmost fence-and-newline that a
\* fence follows
UntaggedSearchFrom(s, i) ==
    LET o == Find(s, FenceNL, i)
        e == IF o = 0 THEN 0 ELSE Find(s, Fence, o + 4)
    IN  IF o = 0 THEN <<>>
        ELSE IF e = 0 THEN UntaggedSearchFrom(s, o + 1)
             ELSE <<SubSeq(s, o + 4, e - 1)>>

\* mutant of UntaggedSearch: the fallback search never matches
UntaggedSearchNever(s) == <<>>

\* re.search(r"```\n([\s\S]*?)```", text): group(1) in a one-element sequence,
\* <<>> when there is no match
UntaggedSearch(s) == UntaggedSearchFrom(s, 1)

\* One attempt of ```(?:[a-zA-Z]+\n)?([\s\S]*?)``` at index i: group(1) in a
\* one-element sequence, <<>> when the pattern fails there.  The optional group is
\* tried first; when the rest fails after it, the engine retries without it.
CodeMatchAt(s, i) ==
    IF ~StartsWithAt(s, i, Fence) THEN <<>>
    ELSE LET k == SkipLetters(s, i + 3)
             tagged == k > i + 3 /\ k <= Len(s) /\ s[k] = NL
             e1 == IF tagged THEN Find(s, Fence, k + 1) ELSE 0
             e2 == Find(s, Fence, i + 3)
         IN  IF e1 # 0 THEN <<SubSeq(s, k + 1, e1 - 1)>>
             ELSE IF e2 # 0 THEN <<SubSeq(s, i + 3, e2 - 1)>>
                  ELSE <<>>

RECURSIVE CodeSearchFrom(_, _)
\* the search below from index i on (the pattern can only match where a fence
\* starts)
CodeSearchFrom(s, i) ==
    LET o == Find(s, Fence, i)
    IN  IF o = 0 THEN <<>>
        ELSE IF Len(CodeMatchAt(s, o)) # 0 THEN CodeMatchAt(s, o)
             ELSE CodeSearchFrom(s, o + 1)

\* re.search of the pattern above: the leftmost index where it matches
CodeSearch(s) == CodeSearchFrom(s, 1)

\* code_utils.extract_code (workflow.extract_code is the same text)
extract_code(s) ==
    LET match == CodeSearch(s)
    IN  IF Len(match) # 0 THEN Strip(match[1]) ELSE Strip(s)

RECURSIVE FilterLinesPrefix(_, _, _)
\* mutant of FilterLines: a line is dropped only when it starts with "import"
FilterLinesPrefix(lines, i, forbidden) ==
    IF i > Len(lines) THEN <<>>
    ELSE LET line == lines[i]
             skip_line == \E f \in 1..Len(forbidden) :
                              Contains(line, forbidden[f]) /\ StartsWithAt(line, 1, S_import)
         IN  (IF skip_line THEN <<>> ELSE <<line>>)
                 \o FilterLinesPrefix(lines, i + 1, forbidden)

RECURSIVE FilterLinesAnyMention(_, _, _)
\* mutant of FilterLines: a line is dropped for a fragment alone, "import" or not
FilterLinesAnyMention(lines, i, forbidden) ==
    IF i > Len(lines) THEN <<>>
    ELSE LET line == lines[i]
             skip_line == \E f \in 1..Len(forbidden) : Contains(line, forbidden[f])
         IN  (IF skip_line THEN <<>> ELSE <<line>>)
                 \o FilterLinesAnyMention(lines, i + 1, forbidden)

RECURSIVE FilterLines(_, _, _)
\* the loop of clean_imports over lines[i..], with the denylist `forbidden`
FilterLines(lines, i, forbidden) ==
    IF i > Len(lines) THEN <<>>
    ELSE LET line == lines[i]
             skip_line == \E f \in 1..Len(forbidden) :
                              Contains(line, forbidden[f]) /\ Contains(line, S_import)
         IN  (IF skip_line THEN <<>> ELSE <<line>>)
                 \o FilterLines(lines, i + 1, forbidden)

\* the three str.replace calls of clean_imports, in the order of the source
FixReactAttrs(s) ==
    Replace(Replace(Replace(s, S_classAttr, S_classNameAttr),
                    S_classDq, S_classNameDq),
            S_classSq, S_classNameSq)

\* code_utils.clean_imports
clean_imports(s) ==
    IF s = <<>> THEN <<>>
    ELSE JoinNL(FilterLines(SplitLines(FixReactAttrs(s)), 1, forbidden_imports))

RECURSIVE ClassifyFromFirst(_, _, _, _)
\* mutant of ClassifyFrom: the first block of a class is kept, later ones ignored
ClassifyFromFirst(blocks, i, js, css) ==
    IF i > Len(blocks) THEN <<js, css>>
    ELSE LET lang == Strip(LowerStr(blocks[i].lang))
         IN  IF lang \in CodeTags
             THEN ClassifyFromFirst(blocks, i + 1,
                      IF js = <<>> THEN Strip(blocks[i].block) ELSE js, css)
             ELSE IF lang \in StyleTags
                  THEN ClassifyFromFirst(blocks, i + 1, js,
                           IF css = <<>> THEN Strip(blocks[i].block) ELSE css)
                  ELSE ClassifyFromFirst(blocks, i + 1, js, css)

RECURSIVE ClassifyFrom(_, _, _, _)
\* the for loop of extract_code_and_css over blocks[i..]: <<js_code, css_code>>
ClassifyFrom(blocks, i, js, css) ==
    IF i > Len(blocks) THEN <<js, css>>
    ELSE LET lang == Strip(LowerStr(blocks[i].lang))
         IN  IF lang \in CodeTags
             THEN ClassifyFrom(blocks, i + 1, Strip(blocks[i].block), css)
             ELSE IF lang \in StyleTags
                  THEN ClassifyFrom(blocks, i + 1, js, Strip(blocks[i].block))
                  ELSE ClassifyFrom(blocks, i + 1, js, css)

\* mutant of extract_code_and_css: the code result is returned as extracted
extract_code_and_css_raw(s) ==
    LET tagged == ClassifyFrom(code_blocks(s), 1, <<>>, <<>>)
        js_match == UntaggedSearch(s)
        js == IF tagged[1] # <<>> THEN tagged[1]
              ELSE IF Len(js_match) # 0 THEN Strip(js_match[1]) ELSE <<>>
    IN  <<js, tagged[2]>>

\* code_utils.extract_code_and_css: <<code, style>>
extract_code_and_css(s) ==
    LET tagged == ClassifyFrom(code_blocks(s), 1, <<>>, <<>>)
        js_match == UntaggedSearch(s)
        js == IF tagged[1] # <<>> THEN tagged[1]
              ELSE IF Len(js_match) # 0 THEN Strip(js_match[1]) ELSE <<>>
    IN  <<clean_imports(js), tagged[2]>>

(***************************************************************************)
(* Block extractor and import filter: the duplicates in workflow.py        *)
(***************************************************************************)
W_fromBootstrapSq == <<"f","r","o","m",SP,"'","r","e","a","c","t","-","b","o","o","t","s","t","r","a","p","'">>
W_fromBootstrapDq == <<"f","r","o","m",SP,"\"","r","e","a","c","t","-","b","o","o","t","s","t","r","a","p","\"">>
W_fromIconsSq == <<"f","r","o","m",SP,"'","r","e","a","c","t","-","i","c","o","n","s","'">>
W_fromIconsDq == <<"f","r","o","m",SP,"\"","r","e","a","c","t","-","i","c","o","n","s","\"">>
W_fromRouterSq == <<"f","r","o","m",SP,"'","r","e","a","c","t","-","r","o","u","t","e","r","-","d","o","m","'">>
W_fromRouterDq == <<"f","r","o","m",SP,"\"","r","e","a","c","t","-","r","o","u","t","e","r","-","d","o","m","\"">>

\* the condition under `not` in the list comprehension of workflow.clean_imports
wf_dropped(line) ==
    \/ Contains(line, F_headlessui)
    \/ Contains(line, F_heroicons)
    \/ Contains(line, F_react_bootstrap)
    \/ Contains(line, F_react_icons)
    \/ Contains(line, F_react_bootstrap_icons)
    \/ (Contains(line, W_fromBootstrapSq) /\ ~Contains(line, W_fromRouterSq))
    \/ (Contains(line, W_fromBootstrapDq) /\ ~Contains(line, W_fromRouterDq))
    \/ (Contains(line, W_fromIconsSq) /\ ~Contains(line, W_fromRouterSq))
    \/ (Contains(line, W_fromIconsDq) /\ ~Contains(line, W_fromRouterDq))

\* workflow.clean_imports
wf_clean_imports(s) ==
    JoinNL(SelectSeq(SplitLines(s), LAMBDA line : ~wf_dropped(line)))

RECURSIVE WfClassifyFrom(_, _, _, _)
\* the for loop of workflow.extract_code_and_css: the tag is trimmed, not lower-cased
WfClassifyFrom(blocks, i, js, css) ==
    IF i > Len(blocks) THEN <<js, css>>
    ELSE LET lang == Strip(blocks[i].lang)
         IN  IF lang \in WfCodeTags
             THEN WfClassifyFrom(blocks, i + 1, Strip(blocks[i].block), css)
             ELSE IF lang = T_css
                  THEN WfClassifyFrom(blocks, i + 1, js, Strip(blocks[i].block))
                  ELSE WfClassifyFrom(blocks, i + 1, js, css)

\* workflow.extract_code_and_css up to line 101: the raw style block and the code
\* result, <<js_code, css_code before clean_css>>
wf_extract_code_and_css(s) ==
    LET tagged == WfClassifyFrom(code_blocks(s), 1, <<>>, <<>>)
        js == IF tagged[1] # <<>> THEN tagged[1] ELSE extract_code(s)
    IN  <<IF js # <<>> THEN FixReactAttrs(wf_clean_imports(js)) ELSE <<>>,
          tagged[2]>>

(***************************************************************************)
(* Style normalizer: css_utils.py                                          *)
(***************************************************************************)
S_root == <<":","r","o","o","t">>
S_classEq == <<"c","l","a","s","s","=">>
S_classNameEq == <<"c","l","a","s","s","N","a","m","e","=">>
S_commentOpen == <<"/","*">>
S_twoSpaces == <<SP, SP>>
S_spaceBrace == <<SP, "{">>
S_commaSpace == <<",", SP>>
S_semi == <<";">>
S_openBrace == <<"{">>
S_closeBrace == <<"}">>
S_colon == <<":">>

\* s.endswith(p)
EndsWith(s, p) == Len(s) >= Len(p) /\ StartsWithAt(s, Len(s) - Len(p) + 1, p)

\* the least index >= i of s whose character is not in cs, Len(s) + 1 when
\* none: where a greedy run of cs that starts at i stops
SkipWhile(s, i, cs) ==
    LET stops == {k \in i..Len(s) : s[k] \notin cs}
    IN  IF stops = {} THEN Len(s) + 1 ELSE CHOOSE k \in stops : \A j \in stops : k <= j

\* s.rstrip(c)
RStripChar(s, c) ==
    LET keep == {k \in 1..Len(s) : s[k] # c}
    IN  IF keep = {} THEN <<>>
        ELSE SubSeq(s, 1, CHOOSE k \in keep : \A j \in keep : k >= j)

RECURSIVE SubSemisBrace(_, _)
\* re.sub(r';+\s*{', ' {', s) from index i on: a run of semicolons matches
\* where, after the whole run and any whitespace, an opening brace follows
SubSemisBrace(s, i) ==
    LET m == FindAny(s, {";"}, i)
    IN  IF m = 0 THEN SubSeq(s, i, Len(s))
        ELSE LET e == SkipWhile(s, m, {";"})
                 w == SkipWhile(s, e, Whitespace)
             IN  IF w <= Len(s) /\ s[w] = "{"
                 THEN SubSeq(s, i, m - 1) \o S_spaceBrace \o SubSemisBrace(s, w + 1)
                 ELSE SubSeq(s, i, e - 1) \o SubSemisBrace(s, e)

RECURSIVE SubCommaSemi(_, _, _, _)
\* re.sub(r',\s*;\s*', new, s) when tail, re.sub(r',\s*;', new, s) otherwise,
\* from index i on
SubCommaSemi(s, i, tail, new) ==
    LET m == FindAny(s, {","}, i)
    IN  IF m = 0 THEN SubSeq(s, i, Len(s))
        ELSE LET w == SkipWhile(s, m + 1, Whitespace)
             IN  IF w <= Len(s) /\ s[w] = ";"
                 THEN SubSeq(s, i, m - 1) \o new
                          \o SubCommaSemi(s, IF tail THEN SkipWhile(s, w + 1, Whitespace)
                                             ELSE w + 1, tail, new)
                 ELSE SubSeq(s, i, m) \o SubCommaSemi(s, m + 1, tail, new)

RECURSIVE CollapseSemis(_, _)
\* re.sub(r';+', ';', s) from index i on
CollapseSemis(s, i) ==
    LET m == FindAny(s, {";"}, i)
    IN  IF m = 0 THEN SubSeq(s, i, Len(s))
        ELSE SubSeq(s, i, m) \o CollapseSemis(s, SkipWhile(s, m, {";"}))

\* re.sub(r';\s*$', '', s) on a text without "\n": the last semicolon goes,
\* with the whitespace after it, when only whitespace follows it
SubTrailingSemi(s) ==
    LET semis == {k \in 1..Len(s) : s[k] = ";"}
    IN  IF semis = {} THEN s
        ELSE LET m == CHOOSE k \in semis : \A j \in semis : k >= j
             IN  IF SkipWhile(s, m + 1, Whitespace) > Len(s)
                 THEN SubSeq(s, 1, m - 1) ELSE s

\* lines 40-42: the rewriting of a selector line
FixSelector(stripped_line) ==
    LET s1 == SubSemisBrace(stripped_line, 1)
        s2 == SubCommaSemi(s1, 1, TRUE, S_commaSpace)
    IN  SubTrailingSemi(RStripChar(s2, "{")) \o S_spaceBrace

\* mutant of FixProperty: no semicolon is appended
FixPropertyNoAppend(stripped_line) ==
    LET s2 == CollapseSemis(stripped_line, 1)
        s3 == SubCommaSemi(s2, 1, FALSE, S_semi)
    IN  IF StartsWithAt(s3, 1, S_twoSpaces) \/ StartsWithAt(s3, 1, <<TAB>>)
        THEN s3 ELSE S_twoSpaces \o s3

\* lines 51-58: the repair of a property line
FixProperty(stripped_line) ==
    LET s1 == IF EndsWith(stripped_line, S_semi) THEN stripped_line
              ELSE stripped_line \o S_semi
        s2 == CollapseSemis(s1, 1)
        s3 == SubCommaSemi(s2, 1, FALSE, S_semi)
    IN  IF StartsWithAt(s3, 1, S_twoSpaces) \/ StartsWithAt(s3, 1, <<TAB>>)
        THEN s3 ELSE S_twoSpaces \o s3

\* line 50: the test of the property branch
IsPropertyLine(stripped_line, ir, im, ik) ==
    /\ ir \/ im \/ ik
    /\ Contains(stripped_line, S_colon)
    /\ ~StartsWithAt(stripped_line, 1, S_commentOpen)

\* mutant of CloseBrace: every closing brace ends the repair, whatever the depth
CloseBraceResets(ir, bc) == <<FALSE, IF bc - 1 <= 0 THEN 0 ELSE bc - 1>>

\* mutant of CloseBrace: the depth is not clamped
CloseBraceNoClamp(ir, bc) == <<IF bc - 1 <= 0 THEN FALSE ELSE ir, bc - 1>>

\* lines 30-35: <<in_rule, brace_count>> after a closing brace
CloseBrace(ir, bc) == IF bc - 1 <= 0 THEN <<FALSE, 0>> ELSE <<ir, bc - 1>>

\* css_variables: the baseline design-token block, line by line
css_variable_lines == <<
    <<>>,
    <<":","r","o","o","t"," ","{">>,
    <<" "," ","/","*"," ","C","o","l","o","r"," ","P","a","l","e","t","t","e"," ","*","/">>,
    <<" "," ","-","-","p","r","i","m","a","r","y","-","c","o","l","o","r",":"," ","#","4","f","4","6","e","5",";">>,
    <<" "," ","-","-","p","r","i","m","a","r","y","-","h","o","v","e","r",":"," ","#","4","3","3","8","c","a",";">>,
    <<" "," ","-","-","s","e","c","o","n","d","a","r","y","-","c","o","l","o","r",":"," ","#","0","6","b","6","d","4",";">>,
    <<" "," ","-","-","s","e","c","o","n","d","a","r","y","-","h","o","v","e","r",":"," ","#","0","8","9","1","b","2",";">>,
    <<" "," ","-","-","a","c","c","e","n","t","-","c","o","l","o","r",":"," ","#","f","5","9","e","0","b",";">>,
    <<" "," ","-","-","s","u","c","c","e","s","s","-","c","o","l","o","r",":"," ","#","1","0","b","9","8","1",";">>,
    <<" "," ","-","-","e","r","r","o","r","-","c","o","l","o","r",":"," ","#","e","f","4","4","4","4",";">>,
    <<" "," ","-","-","w","a","r","n","i","n","g","-","c","o","l","o","r",":"," ","#","f","5","9","e","0","b",";">>,
    <<" "," ">>,
    <<" "," ","/","*"," ","G","r","a","d","i","e","n","t","s"," ","*","/">>,
    <<" "," ","-","-","p","r","i","m","a","r","y","-","g","r","a","d","i","e","n","t",":"," ","l","i","n","e","a","r","-","g","r","a","d","i","e","n","t","(","1","3","5","d","e","g",","," ","v","a","r","(","-","-","p","r","i","m","a","r","y","-","c","o","l","o","r",")"," ","0","%",","," ","v","a","r","(","-","-","s","e","c","o","n","d","a","r","y","-","c","o","l","o","r",")"," ","1","0","0","%",")",";">>,
    <<" "," ","-","-","h","e","r","o","-","g","r","a","d","i","e","n","t",":"," ","l","i","n","e","a","r","-","g","r","a","d","i","e","n","t","(","1","3","5","d","e","g",","," ","#","6","6","7","e","e","a"," ","0","%",","," ","#","7","6","4","b","a","2"," ","1","0","0","%",")",";">>,
    <<" "," ","-","-","c","a","r","d","-","g","r","a","d","i","e","n","t",":"," ","l","i","n","e","a","r","-","g","r","a","d","i","e","n","t","(","1","4","5","d","e","g",","," ","#","f","f","f","f","f","f"," ","0","%",","," ","#","f","8","f","a","f","c"," ","1","0","0","%",")",";">>,
    <<" "," ">>,
    <<" "," ","/","*"," ","S","p","a","c","i","n","g"," ","*","/">>,
    <<" "," ","-","-","s","p","a","c","e","-","x","s",":"," ","0",".","2","5","r","e","m",";">>,
    <<" "," ","-","-","s","p","a","c","e","-","s","m",":"," ","0",".","5","r","e","m",";">>,
    <<" "," ","-","-","s","p","a","c","e","-","m","d",":"," ","1","r","e","m",";">>,
    <<" "," ","-","-","s","p","a","c","e","-","l","g",":"," ","1",".","5","r","e","m",";">>,
    <<" "," ","-","-","s","p","a","c","e","-","x","l",":"," ","2","r","e","m",";">>,
    <<" "," ","-","-","s","p","a","c","e","-","2","x","l",":"," ","3","r","e","m",";">>,
    <<" "," ">>,
    <<" "," ","/","*"," ","T","y","p","o","g","r","a","p","h","y"," ","*","/">>,
    <<" "," ","-","-","f","o","n","t","-","s","i","z","e","-","x","s",":"," ","0",".","7","5","r","e","m",";">>,
    <<" "," ","-","-","f","o","n","t","-","s","i","z","e","-","s","m",":"," ","0",".","8","7","5","r","e","m",";">>,
    <<" "," ","-","-","f","o","n","t","-","s","i","z","e","-","b","a","s","e",":"," ","1","r","e","m",";">>,
    <<" "," ","-","-","f","o","n","t","-","s","i","z","e","-","l","g",":"," ","1",".","1","2","5","r","e","m",";">>,
    <<" "," ","-","-","f","o","n","t","-","s","i","z","e","-","x","l",":"," ","1",".","2","5","r","e","m",";">>,
    <<" "," ","-","-","f","o","n","t","-","s","i","z","e","-","2","x","l",":"," ","1",".","5","r","e","m",";">>,
    <<" "," ","-","-","f","o","n","t","-","s","i","z","e","-","3","x","l",":"," ","1",".","8","7","5","r","e","m",";">>,
    <<" "," ","-","-","f","o","n","t","-","s","i","z","e","-","4","x","l",":"," ","2",".","2","5","r","e","m",";">>,
    <<" "," ">>,
    <<" "," ","/","*"," ","S","h","a","d","o","w","s"," ","*","/">>,
    <<" "," ","-","-","s","h","a","d","o","w","-","s","m",":"," ","0"," ","1","p","x"," ","2","p","x"," ","0"," ","r","g","b","a","(","0",","," ","0",","," ","0",","," ","0",".","0","5",")",";">>,
    <<" "," ","-","-","s","h","a","d","o","w","-","m","d",":"," ","0"," ","4","p","x"," ","6","p","x"," ","-","1","p","x"," ","r","g","b","a","(","0",","," ","0",","," ","0",","," ","0",".","1",")",","," ","0"," ","2","p","x"," ","4","p","x"," ","-","1","p","x"," ","r","g","b","a","(","0",","," ","0",","," ","0",","," ","0",".","0","6",")",";">>,
    <<" "," ","-","-","s","h","a","d","o","w","-","l","g",":"," ","0"," ","1","0","p","x"," ","1","5","p","x"," ","-","3","p","x"," ","r","g","b","a","(","0",","," ","0",","," ","0",","," ","0",".","1",")",","," ","0"," ","4","p","x"," ","6","p","x"," ","-","2","p","x"," ","r","g","b","a","(","0",","," ","0",","," ","0",","," ","0",".","0","5",")",";">>,
    <<" "," ","-","-","s","h","a","d","o","w","-","x","l",":"," ","0"," ","2","0","p","x"," ","2","5","p","x"," ","-","5","p","x"," ","r","g","b","a","(","0",","," ","0",","," ","0",","," ","0",".","1",")",","," ","0"," ","1","0","p","x"," ","1","0","p","x"," ","-","5","p","x"," ","r","g","b","a","(","0",","," ","0",","," ","0",","," ","0",".","0","4",")",";">>,
    <<" "," ">>,
    <<" "," ","/","*"," ","B","o","r","d","e","r"," ","R","a","d","i","u","s"," ","*","/">>,
    <<" "," ","-","-","r","a","d","i","u","s","-","s","m",":"," ","0",".","3","7","5","r","e","m",";">>,
    <<" "," ","-","-","r","a","d","i","u","s","-","m","d",":"," ","0",".","5","r","e","m",";">>,
    <<" "," ","-","-","r","a","d","i","u","s","-","l","g",":"," ","0",".","7","5","r","e","m",";">>,
    <<" "," ","-","-","r","a","d","i","u","s","-","x","l",":"," ","1","r","e","m",";">>,
    <<" "," ","-","-","r","a","d","i","u","s","-","f","u","l","l",":"," ","9","9","9","9","p","x",";">>,
    <<" "," ">>,
    <<" "," ","/","*"," ","T","r","a","n","s","i","t","i","o","n","s"," ","*","/">>,
    <<" "," ","-","-","t","r","a","n","s","i","t","i","o","n","-","f","a","s","t",":"," ","0",".","1","5","s"," ","e","a","s","e","-","i","n","-","o","u","t",";">>,
    <<" "," ","-","-","t","r","a","n","s","i","t","i","o","n","-","b","a","s","e",":"," ","0",".","3","s"," ","e","a","s","e","-","i","n","-","o","u","t",";">>,
    <<" "," ","-","-","t","r","a","n","s","i","t","i","o","n","-","s","l","o","w",":"," ","0",".","5","s"," ","e","a","s","e","-","i","n","-","o","u","t",";">>,
    <<" "," ">>,
    <<" "," ","/","*"," ","G","l","a","s","s","m","o","r","p","h","i","s","m"," ","*","/">>,
    <<" "," ","-","-","g","l","a","s","s","-","b","g",":"," ","r","g","b","a","(","2","5","5",","," ","2","5","5",","," ","2","5","5",","," ","0",".","1",")",";">>,
    <<" "," ","-","-","g","l","a","s","s","-","b","o","r","d","e","r",":"," ","r","g","b","a","(","2","5","5",","," ","2","5","5",","," ","2","5","5",","," ","0",".","2",")",";">>,
    <<" "," ","-","-","g","l","a","s","s","-","b","l","u","r",":"," ","b","l","u","r","(","2","0","p","x",")",";">>,
    <<"}">>,
    <<>>,
    <<"/","*"," ","P","r","o","f","e","s","s","i","o","n","a","l"," ","a","n","i","m","a","t","i","o","n","s"," ","*","/">>,
    <<"@","k","e","y","f","r","a","m","e","s"," ","f","a","d","e","I","n","U","p"," ","{">>,
    <<" "," ","f","r","o","m"," ","{">>,
    <<" "," "," "," ","o","p","a","c","i","t","y",":"," ","0",";">>,
    <<" "," "," "," ","t","r","a","n","s","f","o","r","m",":"," ","t","r","a","n","s","l","a","t","e","Y","(","3","0","p","x",")",";">>,
    <<" "," ","}">>,
    <<" "," ","t","o"," ","{">>,
    <<" "," "," "," ","o","p","a","c","i","t","y",":"," ","1",";">>,
    <<" "," "," "," ","t","r","a","n","s","f","o","r","m",":"," ","t","r","a","n","s","l","a","t","e","Y","(","0",")",";">>,
    <<" "," ","}">>,
    <<"}">>,
    <<>>,
    <<"@","k","e","y","f","r","a","m","e","s"," ","p","u","l","s","e"," ","{">>,
    <<" "," ","0","%"," ","{">>,
    <<" "," "," "," ","t","r","a","n","s","f","o","r","m",":"," ","s","c","a","l","e","(","1",")",";">>,
    <<" "," ","}">>,
    <<" "," ","5","0","%"," ","{">>,
    <<" "," "," "," ","t","r","a","n","s","f","o","r","m",":"," ","s","c","a","l","e","(","1",".","0","5",")",";">>,
    <<" "," ","}">>,
    <<" "," ","1","0","0","%"," ","{">>,
    <<" "," "," "," ","t","r","a","n","s","f","o","r","m",":"," ","s","c","a","l","e","(","1",")",";">>,
    <<" "," ","}">>,
    <<"}">>,
    <<>>,
    <<"/","*"," ","P","r","o","f","e","s","s","i","o","n","a","l"," ","u","t","i","l","i","t","y"," ","c","l","a","s","s","e","s"," ","*","/">>,
    <<".","g","l","a","s","s","m","o","r","p","h","i","s","m"," ","{">>,
    <<" "," ","b","a","c","k","g","r","o","u","n","d",":"," ","v","a","r","(","-","-","g","l","a","s","s","-","b","g",")",";">>,
    <<" "," ","b","a","c","k","d","r","o","p","-","f","i","l","t","e","r",":"," ","v","a","r","(","-","-","g","l","a","s","s","-","b","l","u","r",")",";">>,
    <<" "," ","-","w","e","b","k","i","t","-","b","a","c","k","d","r","o","p","-","f","i","l","t","e","r",":"," ","v","a","r","(","-","-","g","l","a","s","s","-","b","l","u","r",")",";">>,
    <<" "," ","b","o","r","d","e","r",":"," ","1","p","x"," ","s","o","l","i","d"," ","v","a","r","(","-","-","g","l","a","s","s","-","b","o","r","d","e","r",")",";">>,
    <<" "," ","b","o","r","d","e","r","-","r","a","d","i","u","s",":"," ","v","a","r","(","-","-","r","a","d","i","u","s","-","l","g",")",";">>,
    <<"}">>,
    <<>>,
    <<".","h","o","v","e","r","-","l","i","f","t",":","h","o","v","e","r"," ","{">>,
    <<" "," ","t","r","a","n","s","f","o","r","m",":"," ","t","r","a","n","s","l","a","t","e","Y","(","-","5","p","x",")",";">>,
    <<" "," ","b","o","x","-","s","h","a","d","o","w",":"," ","v","a","r","(","-","-","s","h","a","d","o","w","-","x","l",")",";">>,
    <<" "," ","t","r","a","n","s","i","t","i","o","n",":"," ","a","l","l"," ","v","a","r","(","-","-","t","r","a","n","s","i","t","i","o","n","-","b","a","s","e",")",";">>,
    <<"}">>,
    <<>> >>

css_variables == JoinNL(css_variable_lines)

\* mutant of add_professional_css_patterns: the block is always prepended
add_professional_css_patterns_always(css) == css_variables \o <<NL, NL>> \o css

\* lines 170-173
add_professional_css_patterns(css) ==
    IF ~Contains(css, S_root) THEN css_variables \o <<NL, NL>> \o css ELSE css

\* lines 20-63: one pass of the loop body on a line, entered with
\* in_rule = ir and brace_count = bc (in_media and in_keyframes are never
\* assigned True): the line emitted and the two values afterwards
\* mutant of BlankLineOut: a blank line is dropped
BlankLineOutNone == <<>>

\* lines 23-25: what a blank line appends to fixed_lines
BlankLineOut == << <<>> >>

\* mutant of OtherLineOut: an unclassified line is dropped
OtherLineOutNone(sl) == <<>>

\* lines 62-63: what any other line appends to fixed_lines
OtherLineOut(sl) == <<sl>>

CleanLine(line, ir, bc) ==
    LET sl == Strip(line)
    IN  IF sl = <<>> THEN [out |-> BlankLineOut, ir |-> ir, bc |-> bc]
        ELSE IF sl = S_closeBrace
            THEN [out |-> <<sl>>, ir |-> CloseBrace(ir, bc)[1], bc |-> CloseBrace(ir, bc)[2]]
        ELSE IF EndsWith(sl, S_openBrace)
            THEN [out |-> <<FixSelector(sl)>>, ir |-> TRUE, bc |-> bc + 1]
        ELSE IF IsPropertyLine(sl, ir, FALSE, FALSE)
            THEN [out |-> <<FixProperty(sl)>>, ir |-> ir, bc |-> bc]
        ELSE [out |-> OtherLineOut(sl), ir |-> ir, bc |-> bc]

RECURSIVE CleanLinesRange(_, _, _, _, _)
\* line 19: the loop over ls[lo..hi], its first half and then its second
CleanLinesRange(ls, lo, hi, ir, bc) ==
    IF lo = hi THEN CleanLine(ls[lo], ir, bc)
    ELSE LET mid == (lo + hi) \div 2
             a == CleanLinesRange(ls, lo, mid, ir, bc)
             b == CleanLinesRange(ls, mid + 1, hi, a.ir, a.bc)
         IN  [out |-> a.out \o b.out, ir |-> b.ir, bc |-> b.bc]

\* lines 13-63: fixed_lines after the loop
CleanLinesFrom(ls, k, ir, bc) ==
    IF k > Len(ls) THEN <<>> ELSE CleanLinesRange(ls, k, Len(ls), ir, bc).out

\* css_utils.clean_css
clean_css(css) ==
    IF css = <<>> THEN <<>>
    ELSE add_professional_css_patterns(
             JoinNL(CleanLinesFrom(SplitOnFrom(Replace(css, S_classEq, S_classNameEq), 1, NL),
                                   1, FALSE, 0)))

(***************************************************************************)
(* Style normalizer: the duplicate in workflow.py                          *)
(***************************************************************************)
S_backgroundImage == <<"b", "a", "c", "k", "g", "r", "o", "u", "n", "d", "-", "i", "m", "a", "g", "e">>
S_url == <<"u", "r", "l", "(">>
ImageExts == { <<".", "j", "p", "g">>, <<".", "p", "n", "g">>, <<".", "s", "v", "g">>, <<".", "j", "p", "e", "g">>, <<".", "g", "i", "f">> }
S_gradient ==
    <<"b", "a", "c", "k", "g", "r", "o", "u", "n", "d", ":", SP, "l", "i", "n", "e", "a", "r", "-", "g", "r", "a", "d", "i", "e", "n", "t", "(", "1", "3", "5", "d", "e", "g", ",", SP, "#", "6", "6", "7", "e", "e", "a", SP, "0", "%", ",", SP, "#", "7", "6", "4", "b", "a", "2", SP, "1", "0", "0", "%", ")", ";">>
S_at == <<"@">>
S_commentClose == <<"*", "/">>
S_colonSpace == <<":", SP>>
BodyChars(s) == {s[k] : k \in 1..Len(s)} \ {";", "{", "}"}

\* lines 155-158: a declaration of a local background image becomes a gradient
WfImageFix(sl) ==
    IF /\ Contains(sl, S_backgroundImage)
       /\ \E x \in ImageExts : Contains(sl, x)
       /\ Contains(sl, S_url)
    THEN S_gradient ELSE sl

\* lines 178-187: the repair of a property line inside a rule
WfFixProperty(sl) ==
    LET s1 == IF EndsWith(sl, S_semi) THEN sl ELSE sl \o S_semi
        s2 == CollapseSemis(s1, 1)
        s3 == SubCommaSemi(s2, 1, FALSE, S_semi)
    IN  IF StartsWithAt(s3, 1, S_twoSpaces) THEN s3 ELSE S_twoSpaces \o s3

\* lines 201-205: the repair of a line outside the other branches
WfFixOther(sl) ==
    IF /\ Contains(sl, S_colon)
       /\ ~StartsWithAt(sl, 1, S_commentOpen)
       /\ ~EndsWith(sl, S_commentClose)
    THEN LET s1 == IF EndsWith(sl, S_semi) THEN sl ELSE sl \o S_semi
         IN  IF StartsWithAt(s1, 1, S_twoSpaces) THEN s1 ELSE S_twoSpaces \o s1
    ELSE sl

\* lines 147-206: one pass of the loop body on a line, entered with
\* in_rule = ir: the line emitted and in_rule afterwards
WfCleanLine(line, ir) ==
    LET sl0 == Strip(line)
        sl == WfImageFix(sl0)
    IN  IF sl0 = <<>> THEN [out |-> << <<>> >>, ir |-> ir]
        ELSE IF EndsWith(sl, S_openBrace)
            THEN [out |-> <<FixSelector(sl)>>, ir |-> TRUE]
        ELSE IF sl = S_closeBrace
            THEN [out |-> <<sl>>, ir |-> FALSE]
        ELSE IF ir /\ Contains(sl, S_colon) /\ ~StartsWithAt(sl, 1, S_at)
            THEN [out |-> <<WfFixProperty(sl)>>, ir |-> ir]
        ELSE IF StartsWithAt(sl, 1, S_at)
            THEN [out |-> <<IF Contains(sl, S_openBrace) THEN SubSemisBrace(sl, 1) ELSE sl>>,
                  ir |-> ir]
        ELSE [out |-> <<WfFixOther(sl)>>, ir |-> ir]

RECURSIVE WfCleanLinesRange(_, _, _, _)
\* line 145: the loop over ls[lo..hi], its first half and then its second
WfCleanLinesRange(ls, lo, hi, ir) ==
    IF lo = hi THEN WfCleanLine(ls[lo], ir)
    ELSE LET mid == (lo + hi) \div 2
             a == WfCleanLinesRange(ls, lo, mid, ir)
             b == WfCleanLinesRange(ls, mid + 1, hi, a.ir)
         IN  [out |-> a.out \o b.out, ir |-> b.ir]

\* where the pattern \s*$ (MULTILINE) can end after index e: the greatest
\* position up to the end of the whitespace after e that is the end of the
\* text or stands before a "\n"; 0 when there is none
DollarAfter(s, e) ==
    LET w == SkipWhile(s, e + 1, Whitespace)
        ps == {p \in (e + 1)..w : p > Len(s) \/ s[p] = NL}
    IN  IF ps = {} THEN 0 ELSE CHOOSE p \in ps : \A q \in ps : p >= q

\* the match of :\s*([^;{}]+[^;{}\s])\s*$ at the colon of index c, as
\* <<first of the group, last of the group, position after the match>>, or
\* <<>>: the whitespace after the colon is taken greedily and given back
\* by one character when the group would otherwise be a single character
PropertyTailMatchAt(s, c) ==
    LET ws == SkipWhile(s, c + 1, Whitespace)
        r == SkipWhile(s, c + 1, BodyChars(s)) - 1
        es == {e \in ws..r : s[e] \notin Whitespace /\ DollarAfter(s, e) # 0}
        far == {e \in es : e > ws}
    IN  IF far # {}
            THEN LET e == CHOOSE x \in far : \A y \in far : x >= y
                 IN  <<ws, e, DollarAfter(s, e)>>
        ELSE IF ws \in es /\ ws > c + 1
            THEN <<ws - 1, ws, DollarAfter(s, ws)>>
        ELSE <<>>

RECURSIVE SubPropertyTail(_, _)
\* line 213: re.sub(r':\s*([^;{}]+[^;{}\s])\s*$', r': \1;', s,
\* flags=re.MULTILINE) from index i on
SubPropertyTail(s, i) ==
    LET c == FindAny(s, {":"}, i)
    IN  IF c = 0 THEN SubSeq(s, i, Len(s))
        ELSE LET m == PropertyTailMatchAt(s, c)
             IN  IF m = <<>> THEN SubSeq(s, i, c) \o SubPropertyTail(s, c + 1)
                 ELSE SubSeq(s, i, c - 1) \o S_colonSpace \o SubSeq(s, m[1], m[2])
                          \o S_semi \o SubPropertyTail(s, m[3])

RECURSIVE SubSemiBrace(_, _)
\* line 216: re.sub(r';\s*{', ' {', s) from index i on
SubSemiBrace(s, i) ==
    LET m == FindAny(s, {";"}, i)
    IN  IF m = 0 THEN SubSeq(s, i, Len(s))
        ELSE LET w == SkipWhile(s, m + 1, Whitespace)
             IN  IF w <= Len(s) /\ s[w] = "{"
                 THEN SubSeq(s, i, m - 1) \o S_spaceBrace \o SubSemiBrace(s, w + 1)
                 ELSE SubSeq(s, i, m) \o SubSemiBrace(s, m + 1)

\* lines 213-218: the passes over the whole text
WfFinalPasses(s) ==
    CollapseSemis(SubCommaSemi(SubSemiBrace(SubPropertyTail(s, 1), 1), 1, FALSE, S_semi), 1)

\* workflow.clean_css
wf_clean_css(css) ==
    IF css = <<>> THEN <<>>
    ELSE LET ls == SplitOnFrom(Replace(css, S_classEq, S_classNameEq), 1, NL)
         IN  WfFinalPasses(JoinNL(WfCleanLinesRange(ls, 1, Len(ls), FALSE).out))

(***************************************************************************)
(* Inputs: responses composed of prose, fenced blocks and stray fences     *)
(***************************************************************************)
MaxSegs == 3
MaxToks == 3

Block(tag, body) == [kind |-> "block", tag |-> tag, body |-> body]
Prose(body) == [kind |-> "prose", tag |-> <<>>, body |-> body]

\* a fenced block whose opening fence is a line of its own: ```tag, newline, body, ```
Blocks ==
    { Block(T_js, <<"a">>),
      Block(<<"T","S">>, <<"x",SP,"c","l","a","s","s","=","b">>),
      Block(T_jsx, <<SP,"c",NL>>),
      Block(T_css, <<"a">>),
      Block(T_css, <<SP,"d",NL>>),
      Block(<<>>, <<"e">>),
      Block(<<>>, <<"i","m","p","o","r","t",SP,"a","n","t","d",NL,"f">>),
      Block(<<"p","y">>, <<"g">>),
      Block(T_react, <<NL>>),
      Block(<<"c","1">>, <<"h">>) }

\* a fenced region whose body starts on the line of the opening fence: ```js k```
Inlines == { [kind |-> "inline", tag |-> T_js, body |-> <<SP,"k">>] }

Proses == { Prose(<<"p">>), Prose(<<NL,"q">>) }

\* a fence that opens or closes nothing of its own
Strays == { [kind |-> "fence", tag |-> <<>>, body |-> <<>>] }

Segments == Blocks \cup Inlines \cup Proses \cup Strays

\* the text of one segment
RenderSeg(g) ==
    CASE g.kind = "block" -> Fence \o g.tag \o <<NL>> \o g.body \o Fence
      [] g.kind = "inline" -> Fence \o g.tag \o g.body \o Fence
      [] g.kind = "fence" -> Fence
      [] OTHER -> g.body

RECURSIVE Concat(_, _)
\* the concatenation of the sequences ss[i..]
Concat(ss, i) == IF i > Len(ss) THEN <<>> ELSE ss[i] \o Concat(ss, i + 1)

\* the response text of a sequence of segments
Render(gs) == Concat([i \in 1..Len(gs) |-> RenderSeg(gs[i])], 1)

\* all sequences over S of length at most n
SeqsUpTo(S, n) == UNION {[1..k -> S] : k \in 0..n}

\* the pieces code texts are composed of
Tokens ==
    { S_import, F_antd, F_react_icons, <<NL>>, <<SP>>, <<"x">>,
      S_classAttr, S_classDq, <<"c","l","a","s","s","\"">> }

\* the scenario of the specification, a text whose last line is a denylisted
\* import after a blank line, and texts with "\r\n" and with 'class'
Scenarios ==
    { <<"x",NL,NL>> \o S_import \o <<SP>> \o F_antd,
      <<"i","m","p","o","r","t",SP,"{",SP,"I","c","o","n",SP,"}",SP,"f","r","o","m",SP,"'","@","h","e","r","o","i","c","o","n","s","/","r","e","a","c","t","'",";",NL,"e","x","p","o","r","t",SP,"d","e","f","a","u","l","t",SP,"f","u","n","c","t","i","o","n",SP,"X","(",")","{","}">>,
      <<"a",CR,NL,"b">>,
      S_classSq \o <<"c","l","a","s","s","'">> }

CodeInputs ==
    {Concat(ts, 1) : ts \in SeqsUpTo(Tokens, MaxToks)} \cup Scenarios

(***************************************************************************)
(* Extraction of one response                                              *)
(***************************************************************************)
Init ==
    /\ segs \in SeqsUpTo(Segments, MaxSegs)
    /\ text = Render(segs)
    /\ pc = "input"
    /\ js_code = <<>>
    /\ css_code = <<>>
    /\ code = <<>>
    /\ cleaned = <<>>
    /\ recleaned = <<>>
    /\ StyleIdle
    /\ RunIdle

\* code_utils.extract_code_and_css(text)
ExtractPair ==
    /\ pc = "input"
    /\ \E r \in {extract_code_and_css(text)} :
           /\ js_code' = r[1]
           /\ css_code' = r[2]
    /\ pc' = "pair"
    /\ UNCHANGED <<segs, text, code, cleaned, recleaned>>
    /\ UNCHANGED styleVars
    /\ UNCHANGED runVars

\* code_utils.extract_code(text)
ExtractSingle ==
    /\ pc = "input"
    /\ js_code' = extract_code(text)
    /\ pc' = "single"
    /\ UNCHANGED <<segs, text, css_code, code, cleaned, recleaned>>
    /\ UNCHANGED styleVars
    /\ UNCHANGED runVars

\* workflow.extract_code_and_css(text), on the responses for which it does not
\* reach clean_css (line 104), that is with no style block found
WfExtractPair ==
    /\ pc = "input"
    /\ \E r \in {wf_extract_code_and_css(text)} :
           /\ r[2] = <<>>
           /\ js_code' = r[1]
           /\ css_code' = <<>>
    /\ pc' = "wf_pair"
    /\ UNCHANGED <<segs, text, code, cleaned, recleaned>>
    /\ UNCHANGED styleVars
    /\ UNCHANGED runVars

Next == ExtractPair \/ ExtractSingle \/ WfExtractPair

Spec == Init /\ [][Next]_vars

(***************************************************************************)
(* Sanitizing one code text                                                *)
(***************************************************************************)
InitSanitize ==
    /\ segs = <<>>
    /\ text = <<>>
    /\ pc = "input"
    /\ js_code = <<>>
    /\ css_code = <<>>
    /\ code \in CodeInputs
    /\ cleaned = <<>>
    /\ recleaned = <<>>
    /\ StyleIdle
    /\ RunIdle

\* code_utils.clean_imports(code), as extract_code_and_css line 20 calls it
CleanImports ==
    /\ pc = "input"
    /\ cleaned' = clean_imports(code)
    /\ pc' = "cleaned"
    /\ UNCHANGED <<segs, text, js_code, css_code, code, recleaned>>
    /\ UNCHANGED styleVars
    /\ UNCHANGED runVars

\* the caller's clean_imports(js_code) on the extractor's result
\* (page_generator.py lines 60, 106, 154; component_generator.py line 197)
CleanAgain ==
    /\ pc = "cleaned"
    /\ recleaned' = clean_imports(cleaned)
    /\ pc' = "recleaned"
    /\ UNCHANGED <<segs, text, js_code, css_code, code, cleaned>>
    /\ UNCHANGED styleVars
    /\ UNCHANGED runVars

\* workflow.clean_imports(code)
WfCleanImports ==
    /\ pc = "input"
    /\ cleaned' = wf_clean_imports(code)
    /\ pc' = "wf_cleaned"
    /\ UNCHANGED <<segs, text, js_code, css_code, code, recleaned>>
    /\ UNCHANGED styleVars
    /\ UNCHANGED runVars

NextSanitize == CleanImports \/ CleanAgain \/ WfCleanImports

SpecSanitize == InitSanitize /\ [][NextSanitize]_vars

(***************************************************************************)
(* Inputs: style texts composed of lines                                   *)
(***************************************************************************)
MaxCssLines == 2

\* lines of each kind the normalizer tells apart, well-formed and malformed
CssLines == {
    <<>>,
    <<SP, SP>>,
    <<"}">>,
    <<".", "a", SP, "{">>,
    <<".", "f", "o", "o", ";", ";", "{">>,
    <<"a", ";", ";", SP, ";", SP, "{">>,
    <<"a", ";", "b", ";", "{">>,
    <<SP, SP, "c", "o", "l", "o", "r", ":", SP, "r", "e", "d">>,
    <<"a", ":", SP, "b", ";", ",", ";">>,
    <<"/", "*", SP, "c", ":", SP, "d">>,
    <<SP, "p", SP>>,
    <<":", "r", "o", "o", "t", SP, "{">> }

\* longer style texts: nested rules, surplus closing braces, a one-line rule,
\* and the baseline block itself
CssScenarios == {
    <<"@", "m", "e", "d", "i", "a", SP, "x", SP, "{", NL, ".", "a", SP, "{", NL, "}", NL, "b", ":", SP, "c", NL, "}", NL, "d", ":", SP, "e">>,
    <<"a", SP, "{", NL, "b", SP, "{", NL, "}", NL, "}", NL, "}", NL, "c", ":", SP, "d">>,
    <<".", "a", SP, "{", NL, NL, SP, SP, "x", ":", SP, "y", NL, "}", NL, SP, NL, "}">>,
    <<"a", ",", SP, ";", SP, "b", SP, "{", NL, TAB, "x", ":", SP, "y", ";", ";", NL, "b", "a", "c", "k", "g", "r", "o", "u", "n", "d", "-", "i", "m", "a", "g", "e", ":", SP, "u", "r", "l", "(", "a", ".", "p", "n", "g", ")", NL, "}">>,
    <<".", "a", SP, "{", SP, "c", "o", "l", "o", "r", ":", "r", "e", "d", ";", ";", SP, "}">>,
    <<".", "a", SP, "{", NL, "a", ":", SP, "b", ",", NL, "}">>,
    <<"[", "c", "l", "a", "s", "s", "=", "a", "]", ",">>,
    css_variables }

CssInputs == {JoinNL(ls) : ls \in SeqsUpTo(CssLines, MaxCssLines)} \cup CssScenarios

(***************************************************************************)
(* Normalizing one style text: css_utils.clean_css, one step per line      *)
(***************************************************************************)
InitStyle ==
    /\ segs = <<>>
    /\ text = <<>>
    /\ pc = "input"
    /\ js_code = <<>>
    /\ css_code = <<>>
    /\ code = <<>>
    /\ cleaned = <<>>
    /\ recleaned = <<>>
    /\ css_in \in CssInputs
    /\ css_lines = <<>>
    /\ line_no = 0
    /\ fixed_lines = <<>>
    /\ in_rule = FALSE
    /\ in_media = FALSE
    /\ in_keyframes = FALSE
    /\ brace_count = 0
    /\ result = <<>>
    /\ result2 = <<>>
    /\ RunIdle

extractVars == <<segs, text, js_code, css_code, code, cleaned, recleaned>>

\* lines 5-6: the empty text is returned as it is
ReturnEmpty ==
    /\ pc = "input"
    /\ css_in = <<>>
    /\ result' = <<>>
    /\ pc' = "css_done"
    /\ UNCHANGED <<css_in, css_lines, line_no, fixed_lines, in_rule, in_media,
                   in_keyframes, brace_count, result2>>
    /\ UNCHANGED extractVars
    /\ UNCHANGED runVars

\* lines 9-17: the substitution, the split and the initial loop state
SplitCss ==
    /\ pc = "input"
    /\ css_in # <<>>
    /\ css_lines' = SplitOnFrom(Replace(css_in, S_classEq, S_classNameEq), 1, NL)
    /\ line_no' = 1
    /\ fixed_lines' = <<>>
    /\ in_rule' = FALSE
    /\ in_media' = FALSE
    /\ in_keyframes' = FALSE
    /\ brace_count' = 0
    /\ pc' = "css_loop"
    /\ UNCHANGED <<css_in, result, result2>>
    /\ UNCHANGED extractVars
    /\ UNCHANGED runVars

\* the loop is at a line
AtLine == pc = "css_loop" /\ line_no <= Len(css_lines)

\* line 20
stripped_line == Strip(css_lines[line_no])

\* lines 23-25: a blank line
BlankLine ==
    /\ AtLine
    /\ stripped_line = <<>>
    /\ fixed_lines' = fixed_lines \o BlankLineOut
    /\ line_no' = line_no + 1
    /\ UNCHANGED <<pc, css_in, css_lines, in_rule, in_media, in_keyframes,
                   brace_count, result, result2>>
    /\ UNCHANGED extractVars
    /\ UNCHANGED runVars

\* lines 28-36: a closing brace
ClosingBrace ==
    /\ AtLine
    /\ stripped_line = S_closeBrace
    /\ fixed_lines' = Append(fixed_lines, stripped_line)
    /\ in_rule' = CloseBrace(in_rule, brace_count)[1]
    /\ in_media' = CloseBrace(in_media, brace_count)[1]
    /\ in_keyframes' = CloseBrace(in_keyframes, brace_count)[1]
    /\ brace_count' = CloseBrace(in_rule, brace_count)[2]
    /\ line_no' = line_no + 1
    /\ UNCHANGED <<pc, css_in, css_lines, result, result2>>
    /\ UNCHANGED extractVars
    /\ UNCHANGED runVars

\* lines 39-47: a selector line
SelectorLine ==
    /\ AtLine
    /\ stripped_line # <<>>
    /\ stripped_line # S_closeBrace
    /\ EndsWith(stripped_line, S_openBrace)
    /\ fixed_lines' = Append(fixed_lines, FixSelector(stripped_line))
    /\ in_rule' = TRUE
    /\ brace_count' = brace_count + 1
    /\ line_no' = line_no + 1
    /\ UNCHANGED <<pc, css_in, css_lines, in_media, in_keyframes, result, result2>>
    /\ UNCHANGED extractVars
    /\ UNCHANGED runVars

\* lines 50-61: a property line
PropertyLine ==
    /\ AtLine
    /\ stripped_line # <<>>
    /\ stripped_line # S_closeBrace
    /\ ~EndsWith(stripped_line, S_openBrace)
    /\ IsPropertyLine(stripped_line, in_rule, in_media, in_keyframes)
    /\ fixed_lines' = Append(fixed_lines, FixProperty(stripped_line))
    /\ line_no' = line_no + 1
    /\ UNCHANGED <<pc, css_in, css_lines, in_rule, in_media, in_keyframes,
                   brace_count, result, result2>>
    /\ UNCHANGED extractVars
    /\ UNCHANGED runVars

\* line 63: any other line
OtherLine ==
    /\ AtLine
    /\ stripped_line # <<>>
    /\ stripped_line # S_closeBrace
    /\ ~EndsWith(stripped_line, S_openBrace)
    /\ ~IsPropertyLine(stripped_line, in_rule, in_media, in_keyframes)
    /\ fixed_lines' = fixed_lines \o OtherLineOut(stripped_line)
    /\ line_no' = line_no + 1
    /\ UNCHANGED <<pc, css_in, css_lines, in_rule, in_media, in_keyframes,
                   brace_count, result, result2>>
    /\ UNCHANGED extractVars
    /\ UNCHANGED runVars

\* lines 65-66: the join and add_professional_css_patterns
JoinAndPrepend ==
    /\ pc = "css_loop"
    /\ line_no > Len(css_lines)
    /\ result' = add_professional_css_patterns(JoinNL(fixed_lines))
    /\ pc' = "css_done"
    /\ UNCHANGED <<css_in, css_lines, line_no, fixed_lines, in_rule, in_media,
                   in_keyframes, brace_count, result2>>
    /\ UNCHANGED extractVars
    /\ UNCHANGED runVars

\* clean_css applied to its own output
CleanCssAgain ==
    /\ pc = "css_done"
    /\ result2' = clean_css(result)
    /\ pc' = "css_redone"
    /\ UNCHANGED <<css_in, css_lines, line_no, fixed_lines, in_rule, in_media,
                   in_keyframes, brace_count, result>>
    /\ UNCHANGED extractVars
    /\ UNCHANGED runVars

\* the style texts handed to workflow.clean_css: that file has no baseline
\* block
WfCssInputs == CssInputs \ {css_variables}

\* workflow.clean_css(css_in)
WfCleanCss ==
    /\ pc = "input"
    /\ css_in \in WfCssInputs
    /\ result' = wf_clean_css(css_in)
    /\ pc' = "wf_css_done"
    /\ UNCHANGED <<css_in, css_lines, line_no, fixed_lines, in_rule, in_media,
                   in_keyframes, brace_count, result2>>
    /\ UNCHANGED extractVars
    /\ UNCHANGED runVars

\* workflow.clean_css on its own output: extract_code_and_css line 104 cleans
\* the style text and generate_components line 414 cleans it again
WfCleanCssAgain ==
    /\ pc = "wf_css_done"
    /\ result2' = wf_clean_css(result)
    /\ pc' = "wf_css_redone"
    /\ UNCHANGED <<css_in, css_lines, line_no, fixed_lines, in_rule, in_media,
                   in_keyframes, brace_count, result>>
    /\ UNCHANGED extractVars
    /\ UNCHANGED runVars

NextStyle ==
    \/ ReturnEmpty \/ SplitCss \/ BlankLine \/ ClosingBrace \/ SelectorLine
    \/ PropertyLine \/ OtherLine \/ JoinAndPrepend \/ CleanCssAgain
    \/ WfCleanCss \/ WfCleanCssAgain

SpecStyle == InitStyle /\ [][NextStyle]_vars

\* the loop of clean_css and the function computed in one piece agree
CleanCssAgrees == pc \in {"css_done", "css_redone"} => result = clean_css(css_in)

(***************************************************************************)
(* What a response is made of, read off the segments it was composed from  *)
(***************************************************************************)
Last(q) == q[Len(q)]

\* the tag as the extractor is specified to compare it: lower-cased and trimmed
NormTag(g) == Strip(LowerStr(g.tag))

IsCodeBlock(g) == g.kind = "block" /\ NormTag(g) \in CodeTags
IsStyleBlock(g) == g.kind = "block" /\ NormTag(g) \in StyleTags
IsUntaggedBlock(g) == g.kind = "block" /\ g.tag = <<>>

CodeBlocksOf(gs) == SelectSeq(gs, IsCodeBlock)
StyleBlocksOf(gs) == SelectSeq(gs, IsStyleBlock)
UntaggedBlocksOf(gs) == SelectSeq(gs, IsUntaggedBlock)

\* the fenced regions of a response, whatever their tag
RegionsOf(gs) == SelectSeq(gs, LAMBDA g : g.kind # "prose")

\* every fence of the response opens a block with a tag of letters only (or no
\* tag) directly followed by a newline, or closes such a block
Regular(gs) ==
    \A i \in 1..Len(gs) :
        \/ gs[i].kind = "prose"
        \/ gs[i].kind = "block" /\ \A k \in 1..Len(gs[i].tag) : IsLetter(gs[i].tag[k])

\* the response holds exactly one fenced region, a block, and prose around it
OneBlock(gs) == Len(RegionsOf(gs)) = 1 /\ RegionsOf(gs)[1].kind = "block"

\* the response holds no two fences: no fenced region at all
NoFencedRegion(s) ==
    Find(s, Fence, 1) = 0 \/ Find(s, Fence, Find(s, Fence, 1) + 3) = 0

(***************************************************************************)
(* Claims on the block extractor                                           *)
(***************************************************************************)

\* C1: for every text with no fenced region, extract_code_and_css returns the
\* pair ("", ""), in code_utils.py and in workflow.py alike.
C1_NoFenceGivesEmptyPair ==
    (pc \in {"pair", "wf_pair"} /\ NoFencedRegion(text))
        => (js_code = <<>> /\ css_code = <<>>)

\* C1, the part that holds: code_utils.extract_code_and_css returns ("", "")
\* for every text with no fenced region.
C1_CodeUtilsGivesEmptyPair ==
    (pc = "pair" /\ NoFencedRegion(text)) => (js_code = <<>> /\ css_code = <<>>)

C5_FallbackOnlyUntaggedBody ==
    (pc = "pair" /\ Regular(segs) /\ CodeBlocksOf(segs) = <<>>)
        => \/ js_code = <<>>
           \/ /\ UntaggedBlocksOf(segs) # <<>>
              /\ js_code \in {Strip(UntaggedBlocksOf(segs)[1].body),
                              clean_imports(Strip(UntaggedBlocksOf(segs)[1].body))}

\* C6: for every text, unbalanced fences included, the extractor returns a
\* pair of strings, and a class with no complete fenced block of that class
\* (for code: a code-tagged or an untagged block) yields "": on a text with no
\* two fences both results are "", and on a regular response a class without
\* a block is "".
C6_NoBlockOfClassGivesEmpty ==
    pc = "pair"
        => /\ js_code \in Seq(STRING)
           /\ css_code \in Seq(STRING)
           /\ NoFencedRegion(text) => (js_code = <<>> /\ css_code = <<>>)
           /\ Regular(segs)
                  => /\ (CodeBlocksOf(segs) = <<>> /\ UntaggedBlocksOf(segs) = <<>>)
                            => js_code = <<>>
                     /\ StyleBlocksOf(segs) = <<>> => css_code = <<>>

\* C7: extract_code returns the trimmed body of the first fenced region
\* whatever its tag, the tag never being part of it, and the whole trimmed text
\* when there is no fence.
C7_FirstBodyWithoutTag ==
    (pc = "single" /\ \A i \in 1..Len(segs) : segs[i].kind # "fence")
        => IF RegionsOf(segs) # <<>>
           THEN js_code = Strip(RegionsOf(segs)[1].body)
           ELSE js_code = Strip(text)

(***************************************************************************)
(* Claims on the import filter                                             *)
(***************************************************************************)
\* the fragments workflow.clean_imports removes (workflow.py lines 119-123)
wf_forbidden ==
    <<F_headlessui, F_heroicons, F_react_bootstrap, F_react_icons,
      F_react_bootstrap_icons>>

\* a line that holds "import" together with a fragment of the denylist
IsForbiddenImport(line, deny) ==
    Contains(line, S_import) /\ \E f \in 1..Len(deny) : Contains(line, deny[f])

NoForbiddenImportLine(out, deny) ==
    \A i \in 1..Len(LinesOf(out)) : ~IsForbiddenImport(LinesOf(out)[i], deny)

\* C8: no line of the output of clean_imports holds both "import" and a
\* fragment of the denylist the function filters by (code_utils.clean_imports
\* once and twice, and workflow.clean_imports with its own list).
C8_NoForbiddenImportInOutput ==
    /\ pc \in {"cleaned", "recleaned"} => NoForbiddenImportLine(cleaned, forbidden_imports)
    /\ pc = "recleaned" => NoForbiddenImportLine(recleaned, forbidden_imports)
    /\ pc = "wf_cleaned" => NoForbiddenImportLine(cleaned, wf_forbidden)

\* C8 witness: a text with a denylisted import line and another line has been
\* filtered, and something is left.
C8_Witness ==
    /\ pc = "cleaned"
    /\ \E i \in 1..Len(SplitLines(code)) :
           IsForbiddenImport(SplitLines(code)[i], forbidden_imports)
    /\ cleaned # <<>>

\* the input of the filter loop: the text after the attribute substitutions
FilterInput(s) == SplitLines(FixReactAttrs(s))

\* C9: the filter drops a line if and only if it holds "import" and a
\* denylisted fragment; the other lines, blank and indented ones included, are
\* output unchanged and in order; the scenario input yields its second line.
C9_DropsExactlyForbiddenImports ==
    pc = "cleaned"
        => /\ code # <<>>
                  => cleaned = JoinNL(SelectSeq(FilterInput(code),
                                   LAMBDA l : ~IsForbiddenImport(l, forbidden_imports)))
           /\ \A i \in 1..Len(FilterInput(code)) :
                  (code # <<>> /\ ~IsForbiddenImport(FilterInput(code)[i], forbidden_imports))
                      => \E j \in 1..Len(LinesOf(cleaned)) :
                             LinesOf(cleaned)[j] = FilterInput(code)[i]
           /\ (Len(FilterInput(code)) = 2
                 /\ IsForbiddenImport(FilterInput(code)[1], forbidden_imports)
                 /\ ~IsForbiddenImport(FilterInput(code)[2], forbidden_imports))
                  => cleaned = FilterInput(code)[2]

\* C9 witness: a denylisted import line followed by one other line, and
\* exactly the other line is left.
C9_Witness ==
    /\ pc = "cleaned"
    /\ Len(SplitLines(code)) = 2
    /\ IsForbiddenImport(SplitLines(code)[1], forbidden_imports)
    /\ Contains(SplitLines(code)[1], F_heroicons)
    /\ cleaned = SplitLines(code)[2]
    /\ cleaned # <<>>

\* C10: clean_imports is idempotent: its second application, the caller's,
\* changes nothing.
C10_CleanImportsIdempotent ==
    pc = "recleaned" => recleaned = cleaned

(***************************************************************************)
(* Claims on the style normalizer                                          *)
(***************************************************************************)
\* the loop has just processed a line: LastIn went in, LastOut came out
JustProcessed == pc = "css_loop" /\ line_no > 1 /\ Len(fixed_lines) > 0
LastIn == css_lines[line_no - 1]
LastOut == fixed_lines[Len(fixed_lines)]

\* a line that ends, after trimming, with an opening brace
IsOpenerLine(l) == EndsWith(Strip(l), S_openBrace)
IsCloserLine(l) == Strip(l) = S_closeBrace

\* line k of ls lies inside a rule: from some earlier line on, more lines
\* ended with an opening brace than were lone closing braces
InsideRuleAt(ls, k) ==
    \E j \in 1..(k - 1) :
        /\ IsOpenerLine(ls[j])
        /\ Cardinality({n \in j..(k - 1) : IsOpenerLine(ls[n])})
               > Cardinality({n \in j..(k - 1) : IsCloserLine(ls[n])})

\* a trimmed line that reads as a declaration: a colon, no comment opening,
\* and none of the other kinds of line
LooksLikeProperty(sl) ==
    /\ sl # <<>>
    /\ sl # S_closeBrace
    /\ ~EndsWith(sl, S_openBrace)
    /\ Contains(sl, S_colon)
    /\ ~StartsWithAt(sl, 1, S_commentOpen)

\* C11: a property line inside a rule that lacks its trailing semicolon is
\* emitted with a two-space indent and a semicolon at its end; when the line
\* has no semicolon at all and no trailing comma the emitted line is exactly
\* two spaces, the trimmed line and a semicolon ("  color: red" gives
\* "  color: red;").
C11_PropertyLineGetsSemicolon ==
    (/\ JustProcessed
     /\ InsideRuleAt(css_lines, line_no - 1)
     /\ LooksLikeProperty(Strip(LastIn))
     /\ ~EndsWith(Strip(LastIn), S_semi))
        => /\ StartsWithAt(LastOut, 1, S_twoSpaces)
           /\ LastOut[3] = Strip(LastIn)[1]
           /\ EndsWith(LastOut, S_semi)
           /\ (~Contains(Strip(LastIn), S_semi) /\ ~EndsWith(Strip(LastIn), <<",">>))
                  => LastOut = S_twoSpaces \o Strip(LastIn) \o S_semi

\* C11 witness: "  color: red" has been processed inside a rule and
\* "  color: red;" was emitted.
C11_Witness ==
    /\ JustProcessed
    /\ InsideRuleAt(css_lines, line_no - 1)
    /\ LastIn = <<SP, SP, "c", "o", "l", "o", "r", ":", SP, "r", "e", "d">>
    /\ LastOut = <<SP, SP, "c", "o", "l", "o", "r", ":", SP, "r", "e", "d", ";">>

\* a trimmed selector line that ends in a run of semicolons and the brace
EndsInSemisBrace(sl) == EndsWith(sl, <<";", "{">>)

\* the part of such a line before its closing run of semicolons
BeforeSemiRun(sl) == RStripChar(SubSeq(sl, 1, Len(sl) - 1), ";")

\* C12: every selector line ending in semicolons and an opening brace is
\* emitted ending in " {" with no semicolon anywhere before the brace.
C12_NoSemicolonLeft ==
    (JustProcessed /\ EndsInSemisBrace(Strip(LastIn)))
        => /\ EndsWith(LastOut, S_spaceBrace)
           /\ ~Contains(LastOut, S_semi)

\* what does hold of such a line: it is emitted ending in " {", and without
\* any semicolon when its semicolons are all in the closing run.
ClosingRunRemoved ==
    (JustProcessed /\ EndsInSemisBrace(Strip(LastIn)))
        => /\ EndsWith(LastOut, S_spaceBrace)
           /\ ~Contains(BeforeSemiRun(Strip(LastIn)), S_semi)
                  => ~Contains(LastOut, S_semi)

\* the example of the specification: ".foo;;{" is emitted as ".foo  {"
C12_Example ==
    /\ JustProcessed
    /\ Strip(LastIn) = <<".", "f", "o", "o", ";", ";", "{">>
    /\ LastOut = <<".", "f", "o", "o", SP, SP, "{">>

\* C13: for every input without a root-scope declaration, the empty and the
\* whitespace-only text included, the output of clean_css holds one.
C13_RootScopeAlwaysPresent ==
    (pc = "css_done" /\ ~Contains(css_in, S_root)) => Contains(result, S_root)

\* what does hold: the same of every input that is not the empty text
RootScopePresentUnlessEmpty ==
    (pc = "css_done" /\ ~Contains(css_in, S_root) /\ css_in # <<>>)
        => /\ Contains(result, S_root)
           /\ StartsWithAt(result, 1, css_variables \o <<NL, NL>>)

\* how many times p occurs in s
Occurrences(s, p) == Cardinality({i \in 1..Len(s) : StartsWithAt(s, i, p)})

\* the first declaration of the baseline block, which marks a copy of the
\* block even after the normalizer has re-indented it
BaselineMarker == Strip(css_variable_lines[4])

\* C14: a text that holds a root-scope declaration gets no baseline block
\* prepended, so a second application adds none to the output of the first,
\* and no output holds the block more than once.
C14_BaselineNotDuplicated ==
    /\ (pc \in {"css_done", "css_redone"} /\ Contains(css_in, S_root))
           => /\ result = JoinNL(fixed_lines)
              /\ Occurrences(result, BaselineMarker) = Occurrences(css_in, BaselineMarker)
    /\ pc \in {"css_done", "css_redone"}
           => /\ Occurrences(result, css_variables) <= 1
              /\ Occurrences(result, BaselineMarker) <= Occurrences(css_in, BaselineMarker) + 1
    /\ pc = "css_redone"
           => /\ Occurrences(result2, css_variables) <= 1
              /\ Occurrences(result2, BaselineMarker) = Occurrences(result, BaselineMarker)

\* C14 witness: a text without a root-scope declaration has been normalised
\* twice, and the second output still holds the one block the first added.
C14_Witness ==
    /\ pc = "css_redone"
    /\ ~Contains(css_in, S_root)
    /\ Occurrences(result, css_variables) = 1
    /\ Occurrences(result2, BaselineMarker) = 1

(***************************************************************************)
(* One response through extraction and both normalizers                    *)
(***************************************************************************)
MaxPipe == 4

E2E_prose == <<"H", "e", "r", "e", SP, "y", "o", "u", SP, "g", "o", ":", NL>>
E2E_jsxBody == <<"c", "o", "n", "s", "t", SP, "X", SP, "=", SP, "(", ")", SP, "=", ">", SP, "<", "d", "i", "v", SP, "c", "l", "a", "s", "s", "=", "\"", "a", "\"", ">", "h", "i", "<", "/", "d", "i", "v", ">", ";", NL>>
E2E_cssBody == <<".", "a", SP, "{", SP, "c", "o", "l", "o", "r", ":", "r", "e", "d", ";", ";", SP, "}", NL>>
E2E_code == <<"c", "o", "n", "s", "t", SP, "X", SP, "=", SP, "(", ")", SP, "=", ">", SP, "<", "d", "i", "v", SP, "c", "l", "a", "s", "s", "N", "a", "m", "e", "=", "\"", "a", "\"", ">", "h", "i", "<", "/", "d", "i", "v", ">", ";">>

\* the segments of the end-to-end scenario of the specification
PipeSegments ==
    { Prose(E2E_prose), Block(T_jsx, E2E_jsxBody), Prose(<<NL>>), Block(T_css, E2E_cssBody) }

E2E_segs == << Prose(E2E_prose), Block(T_jsx, E2E_jsxBody), Prose(<<NL>>), Block(T_css, E2E_cssBody) >>

InitPipeline ==
    /\ segs \in SeqsUpTo(PipeSegments, MaxPipe)
    /\ text = Render(segs)
    /\ pc = "input"
    /\ js_code = <<>>
    /\ css_code = <<>>
    /\ code = <<>>
    /\ cleaned = <<>>
    /\ recleaned = <<>>
    /\ StyleIdle
    /\ RunIdle

\* the caller's clean_imports(js_code) and clean_css(css_code) on the pair
\* the extractor returned (page_generator.py lines 60-61)
SanitizePair ==
    /\ pc = "pair"
    /\ js_code' = clean_imports(js_code)
    /\ css_code' = clean_css(css_code)
    /\ pc' = "sanitized"
    /\ UNCHANGED <<segs, text, code, cleaned, recleaned>>
    /\ UNCHANGED styleVars
    /\ UNCHANGED runVars

NextPipeline == ExtractPair \/ SanitizePair

SpecPipeline == InitPipeline /\ [][NextPipeline]_vars

\* the style text without the baseline block at its head
AfterBaseline(s) ==
    IF StartsWithAt(s, 1, css_variables \o <<NL, NL>>)
    THEN SubSeq(s, Len(css_variables) + 3, Len(s)) ELSE s

\* the lines a, b, c follow one another somewhere in ls
HasLinesInARow(ls, a, b, c) ==
    \E k \in 1..(Len(ls) - 2) : ls[k] = a /\ ls[k + 1] = b /\ ls[k + 2] = c

\* C15: the end-to-end scenario yields the code with className and, after the
\* prepended baseline block, a style text with the lines ".a {",
\* "  color: red;" and "}".
C15_EndToEndScenario ==
    (pc = "sanitized" /\ segs = E2E_segs)
        => /\ js_code = E2E_code
           /\ StartsWithAt(css_code, 1, css_variables \o <<NL, NL>>)
           /\ HasLinesInARow(LinesOf(AfterBaseline(css_code)),
                  <<".", "a", SP, "{">>, <<SP, SP, "c", "o", "l", "o", "r", ":", SP, "r", "e", "d", ";">>, <<"}">>)

\* what the scenario does yield: the code of the claim, and the style line as
\* the response had it, after the baseline block
EndToEndAsItIs ==
    (pc = "sanitized" /\ segs = E2E_segs)
        => /\ js_code = E2E_code
           /\ css_code = css_variables \o <<NL, NL>> \o Strip(E2E_cssBody)

\* the line of the input text the loop has just processed, as it was handed in
LastInputLine == LinesOf(css_in)[line_no - 1]

\* a line the normalizer does not classify: not blank, not a lone closing
\* brace, not ending in an opening brace, not a property line inside a rule
Unclassified(l, inside) ==
    /\ Strip(l) # <<>>
    /\ Strip(l) # S_closeBrace
    /\ ~EndsWith(Strip(l), S_openBrace)
    /\ ~(inside /\ LooksLikeProperty(Strip(l)))

\* C16: a line the normalizer cannot classify is emitted character for
\* character as it was in the input, leading and trailing whitespace included.
C16_UnclassifiedLineUnchanged ==
    (JustProcessed /\ Unclassified(LastInputLine, InsideRuleAt(css_lines, line_no - 1)))
        => LastOut = LastInputLine

\* what does hold: such a line is emitted trimmed, with "class=" in it
\* rewritten to "className="
UnclassifiedLineTrimmed ==
    (JustProcessed /\ Unclassified(LastInputLine, InsideRuleAt(css_lines, line_no - 1)))
        => LastOut = Strip(Replace(LastInputLine, S_classEq, S_classNameEq))

\* C17: the rule depth is never negative, and at depth 0 the normalizer is
\* outside any rule; a lone closing brace takes one off a positive depth and
\* leaves depth 0 at 0, and when the depth is 0 afterwards every rule flag is
\* off.
C17_DepthNeverNegative ==
    /\ [](brace_count >= 0 /\ (brace_count = 0 => ~in_rule))
    /\ [][(AtLine /\ stripped_line = S_closeBrace)
              => /\ brace_count' = IF brace_count > 0 THEN brace_count - 1 ELSE 0
                 /\ brace_count' = 0 => (~in_rule' /\ ~in_media' /\ ~in_keyframes')
                 /\ fixed_lines' = Append(fixed_lines, S_closeBrace)]_vars

\* C17 witness: a surplus closing brace has been processed outside any rule,
\* after a rule had been opened and closed, and the depth is 0.
C17_Witness ==
    /\ JustProcessed
    /\ line_no > 3
    /\ IsCloserLine(LastIn)
    /\ IsCloserLine(css_lines[line_no - 2])
    /\ \E j \in 1..(line_no - 3) : IsOpenerLine(css_lines[j])
    /\ ~InsideRuleAt(css_lines, line_no - 1)
    /\ brace_count = 0
    /\ ~in_rule

\* C18: a property line emitted from inside a rule ends with exactly one
\* semicolon and holds neither two semicolons in a row nor a comma directly
\* followed by a semicolon.
C18_PropertyLineSemicolons ==
    (/\ JustProcessed
     /\ InsideRuleAt(css_lines, line_no - 1)
     /\ LooksLikeProperty(Strip(LastIn)))
        => /\ EndsWith(LastOut, S_semi)
           /\ ~Contains(LastOut, <<";", ";">>)
           /\ ~Contains(LastOut, <<",", ";">>)

\* what does hold of css_utils.clean_css: such a line ends with a semicolon
\* and holds no comma directly followed by a semicolon
PropertyLineEndsWithSemicolon ==
    (/\ JustProcessed
     /\ InsideRuleAt(css_lines, line_no - 1)
     /\ LooksLikeProperty(Strip(LastIn)))
        => /\ EndsWith(LastOut, S_semi)
           /\ ~Contains(LastOut, <<",", ";">>)

\* and of workflow.clean_css, whose last passes run over the whole text: its
\* output holds neither pattern anywhere
WfNoSemicolonRuns ==
    pc \in {"wf_css_done", "wf_css_redone"}
        => /\ ~Contains(result, <<";", ";">>)
           /\ ~Contains(result, <<",", ";">>)

\* a semicolon stands before an opening brace with at most whitespace between
SemicolonBeforeBrace(s) ==
    \E m \in 1..Len(s) :
        /\ s[m] = ";"
        /\ LET w == SkipWhile(s, m + 1, Whitespace)
           IN  w <= Len(s) /\ s[w] = "{"

\* C19: in the output of clean_css no semicolon stands before an opening
\* brace with at most whitespace between them.
C19_NoSemicolonBeforeBrace ==
    pc = "css_done" => ~SemicolonBeforeBrace(result)

\* C20: a line outside any rule that holds a colon and is not a comment gets
\* the repair of a property line: a semicolon at its end and the two-space
\* indent.
C20_OutsidePropertyRepaired ==
    (/\ JustProcessed
     /\ ~InsideRuleAt(css_lines, line_no - 1)
     /\ LooksLikeProperty(Strip(LastIn)))
        => /\ StartsWithAt(LastOut, 1, S_twoSpaces)
           /\ EndsWith(LastOut, S_semi)

\* what css_utils.clean_css does with such a line: it is emitted trimmed
OutsidePropertyTrimmedOnly ==
    (/\ JustProcessed
     /\ ~InsideRuleAt(css_lines, line_no - 1)
     /\ LooksLikeProperty(Strip(LastIn)))
        => LastOut = Strip(LastIn)

\* what workflow.clean_css does with a text of one such line that neither
\* starts with "@" nor ends a comment: the indent and one closing semicolon
WfOutsidePropertyRepaired ==
    (/\ pc = "wf_css_done"
     /\ ~Contains(css_in, <<NL>>)
     /\ LooksLikeProperty(Strip(css_in))
     /\ ~StartsWithAt(Strip(css_in), 1, S_at)
     /\ ~EndsWith(Strip(css_in), S_commentClose))
        => /\ StartsWithAt(result, 1, S_twoSpaces)
           /\ EndsWith(result, S_semi)
           /\ ~EndsWith(result, <<";", ";">>)

\* the number of lines n in lo..hi of ls for which IsOpenerLine, IsCloserLine
Openers(ls, lo, hi) == Cardinality({n \in lo..hi : IsOpenerLine(ls[n])})
Closers(ls, lo, hi) == Cardinality({n \in lo..hi : IsCloserLine(ls[n])})

\* line k of ls lies in the body of an at-rule: an earlier line starts with
\* "@" and ends with an opening brace, and the brace it opened is still open
\* at every line up to k
InsideAtRuleAt(ls, k) ==
    \E j \in 1..(k - 1) :
        /\ IsOpenerLine(ls[j])
        /\ StartsWithAt(Strip(ls[j]), 1, S_at)
        /\ \A m \in j..(k - 1) : Openers(ls, j, m) > Closers(ls, j, m)

\* a line is emitted repaired: the two-space indent and a semicolon at its end
Repaired(out) == StartsWithAt(out, 1, S_twoSpaces) /\ EndsWith(out, S_semi)

WfRepairThroughAtRuleBody ==
    /\ pc = "wf_css_done"
    /\ Len(LinesOf(css_in)) = 6
    /\ InsideAtRuleAt(LinesOf(css_in), 4)
    /\ LinesOf(result)[4] = <<SP, SP, "b", ":", SP, "c", ";">>

\* C22: every blank or whitespace-only line of the style text is emitted by
\* the line-by-line pass as an empty line at the same position, and handling
\* it changes neither the rule flags nor the depth.
C22_BlankLinesKept ==
    /\ [](pc = "css_loop" =>
             \A k \in 1..(line_no - 1) :
                 Strip(css_lines[k]) = <<>> =>
                     k <= Len(fixed_lines) /\ fixed_lines[k] = <<>>)
    /\ [][(pc = "css_loop" /\ line_no <= Len(css_lines)
              /\ Strip(css_lines[line_no]) = <<>>)
             => /\ fixed_lines' = Append(fixed_lines, <<>>)
                /\ line_no' = line_no + 1
                /\ UNCHANGED <<in_rule, in_media, in_keyframes, brace_count>>]_vars

\* C22 witness: inside a rule a whitespace-only line has been emitted as an
\* empty line at its position, with the flag and the depth as they were.
C22_Witness ==
    /\ JustProcessed
    /\ line_no = 3
    /\ IsOpenerLine(css_lines[1])
    /\ css_lines[2] = <<SP, SP>>
    /\ fixed_lines[2] = <<>>
    /\ Len(fixed_lines) = 2
    /\ in_rule /\ brace_count = 1

\* the characters of a line that no repair adds or removes: all but
\* whitespace, semicolons, commas and braces
IsLayoutChar(c) == c \in Whitespace \/ c \in {";", ",", "{", "}"}
LineCore(l) == SelectSeq(l, LAMBDA c : ~IsLayoutChar(c))

\* C28: the line-by-line pass emits exactly one output line for each input
\* line, in input order: after k lines have been read there are k output
\* lines, none holds a line break, line k of the output carries the text of
\* line k of the input, a step of the loop appends one line and leaves the
\* earlier ones alone, and the joined output has as many lines as the input.
C28_OneLinePerInputLine ==
    /\ [](pc = "css_loop" =>
             /\ Len(fixed_lines) = line_no - 1
             /\ \A k \in 1..Len(fixed_lines) :
                    /\ ~Contains(fixed_lines[k], <<NL>>)
                    /\ LineCore(fixed_lines[k]) = LineCore(css_lines[k]))
    /\ []((pc = "css_done" /\ css_in # <<>>) =>
             /\ Len(fixed_lines) = Len(LinesOf(css_in))
             /\ Len(LinesOf(JoinNL(fixed_lines))) = Len(LinesOf(css_in)))
    /\ [][(pc = "css_loop" /\ pc' = "css_loop") =>
             /\ Len(fixed_lines') = Len(fixed_lines) + 1
             /\ SubSeq(fixed_lines', 1, Len(fixed_lines)) = fixed_lines]_vars

\* C28 witness: a text of a selector line, a blank line, a property line, a
\* closing brace, a whitespace-only line and a surplus brace has gone through
\* the pass, and six lines were emitted.
C28_Witness ==
    /\ pc = "css_done"
    /\ Len(LinesOf(css_in)) = 6
    /\ Len(fixed_lines) = 6
    /\ fixed_lines[2] = <<>>
    /\ fixed_lines[3] = <<SP, SP, "x", ":", SP, "y", ";">>
    /\ fixed_lines[5] = <<>>
    /\ fixed_lines[6] = S_closeBrace

\* C27: sanitizeStyle is idempotent: applied to its own output it returns
\* that output, in css_utils.py and in workflow.py alike, and a well-formed
\* selector line such as ".a {" is emitted as it is.
C27_Idempotent ==
    /\ pc = "css_redone" => result2 = result
    /\ pc = "wf_css_redone" => result2 = result
    /\ (JustProcessed /\ LastIn = <<".", "a", SP, "{">>) => LastOut = LastIn

\* what css_utils.clean_css does with ".a {": the text before the brace keeps
\* its trailing space and " {" is put after it
SelectorLineGainsSpace ==
    (JustProcessed /\ LastIn = <<".", "a", SP, "{">>)
        => LastOut = <<".", "a", SP, SP, "{">>

(***************************************************************************)
(* The generation run: components, pages, project, archive                 *)
(***************************************************************************)
MaxComponents == 2
MaxRuns == 2
MaxClock == 1

\* the requests that may be in flight
RunIds == 1..MaxRuns

\* workflow.generate_components: the keys of component_specs, in order
wf_component_specs ==
    <<"Logo", "Navbar", "Footer", "ContactButton", "Hero", "Features",
      "Pricing", "Testimonials", "FAQ", "Newsletter", "Sidebar">>

\* component_generator.generate_components: the keys of component_specs, in
\* order (the Logo entry is stored before the loop, lines 11-15)
component_specs ==
    <<"Navbar", "Hero", "Features", "Pricing", "Testimonials", "FAQ",
      "Newsletter", "Footer", "ContactButton", "Sidebar">>

\* the names the loop goes through: the first MaxComponents keys
LoopNames(v) ==
    SubSeq(IF v = "workflow" THEN wf_component_specs ELSE component_specs,
           1, MaxComponents)

\* the names a run is asked to produce a component for
RequestedNames(v) == {"Logo"} \cup {LoopNames(v)[k] : k \in 1..MaxComponents}

PageNames == {"Landing", "Main", "Checkout"}

\* the characters of a component name
NameChars(name) ==
    CASE name = "Logo" -> <<"L","o","g","o">>
      [] name = "Navbar" -> <<"N","a","v","b","a","r">>
      [] name = "Footer" -> <<"F","o","o","t","e","r">>
      [] name = "ContactButton" -> <<"C","o","n","t","a","c","t","B","u","t","t","o","n">>
      [] name = "Hero" -> <<"H","e","r","o">>
      [] name = "Features" -> <<"F","e","a","t","u","r","e","s">>
      [] name = "Pricing" -> <<"P","r","i","c","i","n","g">>
      [] name = "Testimonials" -> <<"T","e","s","t","i","m","o","n","i","a","l","s">>
      [] name = "FAQ" -> <<"F","A","Q">>
      [] name = "Newsletter" -> <<"N","e","w","s","l","e","t","t","e","r">>
      [] name = "Sidebar" -> <<"S","i","d","e","b","a","r">>

\* The texts below are what the templates of the source give for a request
\* with website_desc "Company", primary_color "#4f46e5" and secondary_color
\* "#06b6d4" (the defaults of main.generate_site).

\* logo_generator.generate_professional_logo: the component text (lines 14-35)
logo_jsx == JoinNL(<<
    <<"i","m","p","o","r","t"," ","R","e","a","c","t"," ","f","r","o","m"," ","'","r","e","a","c","t","'",";">>,
    <<"i","m","p","o","r","t"," ","'",".","/","L","o","g","o",".","c","s","s","'",";">>,
    <<>>,
    <<"e","x","p","o","r","t"," ","d","e","f","a","u","l","t"," ","f","u","n","c","t","i","o","n"," ","L","o","g","o","(","{"," ","c","l","a","s","s","N","a","m","e"," ","="," ","'","'",","," ","s","i","z","e"," ","="," ","'","m","d","'"," ","}",")"," ","{">>,
    <<" "," ","r","e","t","u","r","n"," ","(">>,
    <<" "," "," "," ","<","d","i","v"," ","c","l","a","s","s","N","a","m","e","=","{",BT,"l","o","g","o","-","c","o","n","t","a","i","n","e","r"," ","l","o","g","o","-","$","{","s","i","z","e","}"," ","$","{","c","l","a","s","s","N","a","m","e","}",BT,"}",">">>,
    <<" "," "," "," "," "," ","<","d","i","v"," ","c","l","a","s","s","N","a","m","e","=","\"","l","o","g","o","-","t","e","x","t","\"",">">>,
    <<" "," "," "," "," "," "," "," ","<","s","p","a","n"," ","c","l","a","s","s","N","a","m","e","=","\"","c","o","m","p","a","n","y","-","n","a","m","e","\"",">","C","o","m","p","a","n","y","<","/","s","p","a","n",">">>,
    <<" "," "," "," "," "," "," "," ","<","d","i","v"," ","c","l","a","s","s","N","a","m","e","=","\"","l","o","g","o","-","a","c","c","e","n","t","\"",">","<","/","d","i","v",">">>,
    <<" "," "," "," "," "," ","<","/","d","i","v",">">>,
    <<" "," "," "," ","<","/","d","i","v",">">>,
    <<" "," ",")",";">>,
    <<"}">>
>>)

\* logo_generator.generate_professional_logo: the style text
logo_css == JoinNL(<<
    <<".","l","o","g","o","-","c","o","n","t","a","i","n","e","r"," ","{">>,
    <<" "," ","d","i","s","p","l","a","y",":"," ","i","n","l","i","n","e","-","f","l","e","x",";">>,
    <<" "," ","a","l","i","g","n","-","i","t","e","m","s",":"," ","c","e","n","t","e","r",";">>,
    <<" "," ","c","u","r","s","o","r",":"," ","p","o","i","n","t","e","r",";">>,
    <<" "," ","t","r","a","n","s","i","t","i","o","n",":"," ","a","l","l"," ","0",".","3","s"," ","e","a","s","e",";">>,
    <<"}">>,
    <<>>,
    <<".","l","o","g","o","-","t","e","x","t"," ","{">>,
    <<" "," ","p","o","s","i","t","i","o","n",":"," ","r","e","l","a","t","i","v","e",";">>,
    <<" "," ","d","i","s","p","l","a","y",":"," ","f","l","e","x",";">>,
    <<" "," ","a","l","i","g","n","-","i","t","e","m","s",":"," ","c","e","n","t","e","r",";">>,
    <<" "," ","f","o","n","t","-","f","a","m","i","l","y",":"," ","'","I","n","t","e","r","'",","," ","-","a","p","p","l","e","-","s","y","s","t","e","m",","," ","B","l","i","n","k","M","a","c","S","y","s","t","e","m","F","o","n","t",","," ","s","a","n","s","-","s","e","r","i","f",";">>,
    <<"}">>,
    <<>>,
    <<".","c","o","m","p","a","n","y","-","n","a","m","e"," ","{">>,
    <<" "," ","f","o","n","t","-","s","i","z","e",":"," ","1",".","7","5","r","e","m",";">>,
    <<" "," ","f","o","n","t","-","w","e","i","g","h","t",":"," ","8","0","0",";">>,
    <<" "," ","b","a","c","k","g","r","o","u","n","d",":"," ","l","i","n","e","a","r","-","g","r","a","d","i","e","n","t","(","1","3","5","d","e","g",","," ","#","4","f","4","6","e","5"," ","0","%",","," ","#","0","6","b","6","d","4"," ","1","0","0","%",")",";">>,
    <<" "," ","-","w","e","b","k","i","t","-","b","a","c","k","g","r","o","u","n","d","-","c","l","i","p",":"," ","t","e","x","t",";">>,
    <<" "," ","b","a","c","k","g","r","o","u","n","d","-","c","l","i","p",":"," ","t","e","x","t",";">>,
    <<" "," ","-","w","e","b","k","i","t","-","t","e","x","t","-","f","i","l","l","-","c","o","l","o","r",":"," ","t","r","a","n","s","p","a","r","e","n","t",";">>,
    <<" "," ","l","e","t","t","e","r","-","s","p","a","c","i","n","g",":"," ","-","0",".","0","2","e","m",";">>,
    <<" "," ","t","r","a","n","s","i","t","i","o","n",":"," ","a","l","l"," ","0",".","3","s"," ","e","a","s","e",";">>,
    <<"}">>,
    <<>>,
    <<".","l","o","g","o","-","a","c","c","e","n","t"," ","{">>,
    <<" "," ","w","i","d","t","h",":"," ","8","p","x",";">>,
    <<" "," ","h","e","i","g","h","t",":"," ","8","p","x",";">>,
    <<" "," ","b","o","r","d","e","r","-","r","a","d","i","u","s",":"," ","5","0","%",";">>,
    <<" "," ","b","a","c","k","g","r","o","u","n","d",":"," ","l","i","n","e","a","r","-","g","r","a","d","i","e","n","t","(","1","3","5","d","e","g",","," ","#","4","f","4","6","e","5"," ","0","%",","," ","#","0","6","b","6","d","4"," ","1","0","0","%",")",";">>,
    <<" "," ","m","a","r","g","i","n","-","l","e","f","t",":"," ","4","p","x",";">>,
    <<" "," ","a","n","i","m","a","t","i","o","n",":"," ","p","u","l","s","e"," ","2","s"," ","i","n","f","i","n","i","t","e",";">>,
    <<"}">>,
    <<>>,
    <<".","l","o","g","o","-","c","o","n","t","a","i","n","e","r",":","h","o","v","e","r"," ",".","c","o","m","p","a","n","y","-","n","a","m","e"," ","{">>,
    <<" "," ","t","r","a","n","s","f","o","r","m",":"," ","s","c","a","l","e","(","1",".","0","5",")",";">>,
    <<" "," ","f","i","l","t","e","r",":"," ","b","r","i","g","h","t","n","e","s","s","(","1",".","1",")",";">>,
    <<"}">>,
    <<>>,
    <<".","l","o","g","o","-","c","o","n","t","a","i","n","e","r",":","h","o","v","e","r"," ",".","l","o","g","o","-","a","c","c","e","n","t"," ","{">>,
    <<" "," ","a","n","i","m","a","t","i","o","n",":"," ","b","o","u","n","c","e"," ","0",".","6","s"," ","e","a","s","e","-","i","n","-","o","u","t",";">>,
    <<"}">>,
    <<>>,
    <<"/","*"," ","S","i","z","e"," ","v","a","r","i","a","n","t","s"," ","*","/">>,
    <<".","l","o","g","o","-","s","m"," ",".","c","o","m","p","a","n","y","-","n","a","m","e"," ","{">>,
    <<" "," ","f","o","n","t","-","s","i","z","e",":"," ","1",".","2","5","r","e","m",";">>,
    <<"}">>,
    <<>>,
    <<".","l","o","g","o","-","s","m"," ",".","l","o","g","o","-","a","c","c","e","n","t"," ","{">>,
    <<" "," ","w","i","d","t","h",":"," ","6","p","x",";">>,
    <<" "," ","h","e","i","g","h","t",":"," ","6","p","x",";">>,
    <<"}">>,
    <<>>,
    <<".","l","o","g","o","-","l","g"," ",".","c","o","m","p","a","n","y","-","n","a","m","e"," ","{">>,
    <<" "," ","f","o","n","t","-","s","i","z","e",":"," ","2",".","5","r","e","m",";">>,
    <<"}">>,
    <<>>,
    <<".","l","o","g","o","-","l","g"," ",".","l","o","g","o","-","a","c","c","e","n","t"," ","{">>,
    <<" "," ","w","i","d","t","h",":"," ","1","2","p","x",";">>,
    <<" "," ","h","e","i","g","h","t",":"," ","1","2","p","x",";">>,
    <<"}">>,
    <<>>,
    <<".","l","o","g","o","-","x","l"," ",".","c","o","m","p","a","n","y","-","n","a","m","e"," ","{">>,
    <<" "," ","f","o","n","t","-","s","i","z","e",":"," ","3","r","e","m",";">>,
    <<"}">>,
    <<>>,
    <<".","l","o","g","o","-","x","l"," ",".","l","o","g","o","-","a","c","c","e","n","t"," ","{">>,
    <<" "," ","w","i","d","t","h",":"," ","1","6","p","x",";">>,
    <<" "," ","h","e","i","g","h","t",":"," ","1","6","p","x",";">>,
    <<"}">>,
    <<>>,
    <<"/","*"," ","A","n","i","m","a","t","i","o","n","s"," ","*","/">>,
    <<"@","k","e","y","f","r","a","m","e","s"," ","p","u","l","s","e"," ","{">>,
    <<" "," ","0","%"," ","{">>,
    <<" "," "," "," ","t","r","a","n","s","f","o","r","m",":"," ","s","c","a","l","e","(","1",")",";">>,
    <<" "," "," "," ","o","p","a","c","i","t","y",":"," ","1",";">>,
    <<" "," ","}">>,
    <<" "," ","5","0","%"," ","{">>,
    <<" "," "," "," ","t","r","a","n","s","f","o","r","m",":"," ","s","c","a","l","e","(","1",".","2",")",";">>,
    <<" "," "," "," ","o","p","a","c","i","t","y",":"," ","0",".","7",";">>,
    <<" "," ","}">>,
    <<" "," ","1","0","0","%"," ","{">>,
    <<" "," "," "," ","t","r","a","n","s","f","o","r","m",":"," ","s","c","a","l","e","(","1",")",";">>,
    <<" "," "," "," ","o","p","a","c","i","t","y",":"," ","1",";">>,
    <<" "," ","}">>,
    <<"}">>,
    <<>>,
    <<"@","k","e","y","f","r","a","m","e","s"," ","b","o","u","n","c","e"," ","{">>,
    <<" "," ","0","%",","," ","2","0","%",","," ","5","3","%",","," ","8","0","%",","," ","1","0","0","%"," ","{">>,
    <<" "," "," "," ","t","r","a","n","s","f","o","r","m",":"," ","t","r","a","n","s","l","a","t","e","3","d","(","0",",","0",",","0",")"," ","s","c","a","l","e","(","1",")",";">>,
    <<" "," ","}">>,
    <<" "," ","4","0","%",","," ","4","3","%"," ","{">>,
    <<" "," "," "," ","t","r","a","n","s","f","o","r","m",":"," ","t","r","a","n","s","l","a","t","e","3","d","(","0",","," ","-","8","p","x",","," ","0",")"," ","s","c","a","l","e","(","1",".","1",")",";">>,
    <<" "," ","}">>,
    <<" "," ","7","0","%"," ","{">>,
    <<" "," "," "," ","t","r","a","n","s","f","o","r","m",":"," ","t","r","a","n","s","l","a","t","e","3","d","(","0",","," ","-","4","p","x",","," ","0",")"," ","s","c","a","l","e","(","1",".","0","5",")",";">>,
    <<" "," ","}">>,
    <<" "," ","9","0","%"," ","{">>,
    <<" "," "," "," ","t","r","a","n","s","f","o","r","m",":"," ","t","r","a","n","s","l","a","t","e","3","d","(","0",","," ","-","1","p","x",","," ","0",")"," ","s","c","a","l","e","(","1",".","0","2",")",";">>,
    <<" "," ","}">>,
    <<"}">>,
    <<>>,
    <<"/","*"," ","D","a","r","k"," ","m","o","d","e"," ","s","u","p","p","o","r","t"," ","*","/">>,
    <<"@","m","e","d","i","a"," ","(","p","r","e","f","e","r","s","-","c","o","l","o","r","-","s","c","h","e","m","e",":"," ","d","a","r","k",")"," ","{">>,
    <<" "," ",".","c","o","m","p","a","n","y","-","n","a","m","e"," ","{">>,
    <<" "," "," "," ","f","i","l","t","e","r",":"," ","b","r","i","g","h","t","n","e","s","s","(","1",".","2",")",";">>,
    <<" "," ","}">>,
    <<"}">>,
    <<>>,
    <<"/","*"," ","R","e","s","p","o","n","s","i","v","e"," ","a","d","j","u","s","t","m","e","n","t","s"," ","*","/">>,
    <<"@","m","e","d","i","a"," ","(","m","a","x","-","w","i","d","t","h",":"," ","7","6","8","p","x",")"," ","{">>,
    <<" "," ",".","l","o","g","o","-","c","o","n","t","a","i","n","e","r"," ",".","c","o","m","p","a","n","y","-","n","a","m","e"," ","{">>,
    <<" "," "," "," ","f","o","n","t","-","s","i","z","e",":"," ","1",".","5","r","e","m",";">>,
    <<" "," ","}">>,
    <<" "," ">>,
    <<" "," ",".","l","o","g","o","-","l","g"," ",".","c","o","m","p","a","n","y","-","n","a","m","e"," ","{">>,
    <<" "," "," "," ","f","o","n","t","-","s","i","z","e",":"," ","2","r","e","m",";">>,
    <<" "," ","}">>,
    <<" "," ">>,
    <<" "," ",".","l","o","g","o","-","x","l"," ",".","c","o","m","p","a","n","y","-","n","a","m","e"," ","{">>,
    <<" "," "," "," ","f","o","n","t","-","s","i","z","e",":"," ","2",".","5","r","e","m",";">>,
    <<" "," ","}">>,
    <<"}">>
>>)

\* component_generator.py lines 211-221: the placeholder component
fallback_component(name) == JoinNL(<<
    <<>>,
    <<"i","m","p","o","r","t"," ","'",".","/">> \o NameChars(name) \o <<".","c","s","s","'",";">>,
    <<>>,
    <<"e","x","p","o","r","t"," ","d","e","f","a","u","l","t"," ","f","u","n","c","t","i","o","n"," ">> \o NameChars(name) \o <<"(",")"," ","{">>,
    <<" "," ","r","e","t","u","r","n"," ","(">>,
    <<" "," "," "," ","<","d","i","v"," ","c","l","a","s","s","N","a","m","e","=","\"">> \o LowerStr(NameChars(name)) \o <<"-","c","o","n","t","a","i","n","e","r","\"",">">>,
    <<" "," "," "," "," "," ","<","h","2",">">> \o NameChars(name) \o <<" ","C","o","m","p","o","n","e","n","t","<","/","h","2",">">>,
    <<" "," "," "," "," "," ","<","p",">","T","h","i","s"," ","i","s"," ","a"," ","p","l","a","c","e","h","o","l","d","e","r"," ","f","o","r"," ","t","h","e"," ">> \o NameChars(name) \o <<" ","c","o","m","p","o","n","e","n","t",".","<","/","p",">">>,
    <<" "," "," "," ","<","/","d","i","v",">">>,
    <<" "," ",")",";">>,
    <<"}">>
>>)

\* component_generator.py lines 222-230: the placeholder style
fallback_component_css(name) == JoinNL(<<
    <<>>,
    <<".">> \o LowerStr(NameChars(name)) \o <<"-","c","o","n","t","a","i","n","e","r"," ","{">>,
    <<" "," ","p","a","d","d","i","n","g",":"," ","2","r","e","m",";">>,
    <<" "," ","t","e","x","t","-","a","l","i","g","n",":"," ","c","e","n","t","e","r",";">>,
    <<" "," ","b","a","c","k","g","r","o","u","n","d",":"," ","l","i","n","e","a","r","-","g","r","a","d","i","e","n","t","(","1","3","5","d","e","g",","," ","#","4","f","4","6","e","5",","," ","#","0","6","b","6","d","4",")",";">>,
    <<" "," ","c","o","l","o","r",":"," ","w","h","i","t","e",";">>,
    <<" "," ","b","o","r","d","e","r","-","r","a","d","i","u","s",":"," ","1","r","e","m",";">>,
    <<" "," ","m","a","r","g","i","n",":"," ","1","r","e","m"," ","0",";">>,
    <<"}">>
>>)

\* page_generator.get_fallback_landing_page (lines 166-194)
get_fallback_landing_page == JoinNL(<<
    <<"i","m","p","o","r","t"," ","R","e","a","c","t"," ","f","r","o","m"," ","'","r","e","a","c","t","'",";">>,
    <<"i","m","p","o","r","t"," ","{"," ","L","i","n","k"," ","}"," ","f","r","o","m"," ","'","r","e","a","c","t","-","r","o","u","t","e","r","-","d","o","m","'",";">>,
    <<"i","m","p","o","r","t"," ","N","a","v","b","a","r"," ","f","r","o","m"," ","'",".",".","/","c","o","m","p","o","n","e","n","t","s","/","N","a","v","b","a","r","'",";">>,
    <<"i","m","p","o","r","t"," ","H","e","r","o"," ","f","r","o","m"," ","'",".",".","/","c","o","m","p","o","n","e","n","t","s","/","H","e","r","o","'",";">>,
    <<"i","m","p","o","r","t"," ","F","e","a","t","u","r","e","s"," ","f","r","o","m"," ","'",".",".","/","c","o","m","p","o","n","e","n","t","s","/","F","e","a","t","u","r","e","s","'",";">>,
    <<"i","m","p","o","r","t"," ","P","r","i","c","i","n","g"," ","f","r","o","m"," ","'",".",".","/","c","o","m","p","o","n","e","n","t","s","/","P","r","i","c","i","n","g","'",";">>,
    <<"i","m","p","o","r","t"," ","T","e","s","t","i","m","o","n","i","a","l","s"," ","f","r","o","m"," ","'",".",".","/","c","o","m","p","o","n","e","n","t","s","/","T","e","s","t","i","m","o","n","i","a","l","s","'",";">>,
    <<"i","m","p","o","r","t"," ","F","A","Q"," ","f","r","o","m"," ","'",".",".","/","c","o","m","p","o","n","e","n","t","s","/","F","A","Q","'",";">>,
    <<"i","m","p","o","r","t"," ","F","o","o","t","e","r"," ","f","r","o","m"," ","'",".",".","/","c","o","m","p","o","n","e","n","t","s","/","F","o","o","t","e","r","'",";">>,
    <<"i","m","p","o","r","t"," ","'",".","/","L","a","n","d","i","n","g",".","c","s","s","'",";">>,
    <<>>,
    <<"e","x","p","o","r","t"," ","d","e","f","a","u","l","t"," ","f","u","n","c","t","i","o","n"," ","L","a","n","d","i","n","g","(",")"," ","{">>,
    <<" "," ","r","e","t","u","r","n"," ","(">>,
    <<" "," "," "," ","<","d","i","v"," ","c","l","a","s","s","N","a","m","e","=","\"","l","a","n","d","i","n","g","-","p","a","g","e","\"",">">>,
    <<" "," "," "," "," "," ","<","N","a","v","b","a","r"," ","/",">">>,
    <<" "," "," "," "," "," ","<","H","e","r","o"," ","/",">">>,
    <<" "," "," "," "," "," ","<","F","e","a","t","u","r","e","s"," ","/",">">>,
    <<" "," "," "," "," "," ","<","P","r","i","c","i","n","g"," ","/",">">>,
    <<" "," "," "," "," "," ","<","T","e","s","t","i","m","o","n","i","a","l","s"," ","/",">">>,
    <<" "," "," "," "," "," ","<","F","A","Q"," ","/",">">>,
    <<" "," "," "," "," "," ","<","F","o","o","t","e","r"," ","/",">">>,
    <<" "," "," "," ","<","/","d","i","v",">">>,
    <<" "," ",")",";">>,
    <<"}">>
>>)

\* page_generator.get_fallback_landing_css (lines 196-217)
get_fallback_landing_css == JoinNL(<<
    <<".","l","a","n","d","i","n","g","-","p","a","g","e"," ","{">>,
    <<" "," ","m","i","n","-","h","e","i","g","h","t",":"," ","1","0","0","v","h",";">>,
    <<" "," ","b","a","c","k","g","r","o","u","n","d",":"," ","l","i","n","e","a","r","-","g","r","a","d","i","e","n","t","(","1","3","5","d","e","g",","," ","#","4","f","4","6","e","5",","," ","#","0","6","b","6","d","4",")",";">>,
    <<"}">>,
    <<>>,
    <<".","l","a","n","d","i","n","g","-","p","a","g","e"," ","s","e","c","t","i","o","n"," ","{">>,
    <<" "," ","p","a","d","d","i","n","g",":"," ","4","r","e","m"," ","0",";">>,
    <<"}">>,
    <<>>,
    <<".","l","a","n","d","i","n","g","-","p","a","g","e"," ",".","h","e","r","o"," ","{">>,
    <<" "," ","m","i","n","-","h","e","i","g","h","t",":"," ","1","0","0","v","h",";">>,
    <<" "," ","d","i","s","p","l","a","y",":"," ","f","l","e","x",";">>,
    <<" "," ","a","l","i","g","n","-","i","t","e","m","s",":"," ","c","e","n","t","e","r",";">>,
    <<" "," ","j","u","s","t","i","f","y","-","c","o","n","t","e","n","t",":"," ","c","e","n","t","e","r",";">>,
    <<" "," ","t","e","x","t","-","a","l","i","g","n",":"," ","c","e","n","t","e","r",";">>,
    <<" "," ","c","o","l","o","r",":"," ","w","h","i","t","e",";">>,
    <<"}">>
>>)

\* page_generator.get_fallback_main_page (lines 219-246)
get_fallback_main_page == JoinNL(<<
    <<"i","m","p","o","r","t"," ","R","e","a","c","t"," ","f","r","o","m"," ","'","r","e","a","c","t","'",";">>,
    <<"i","m","p","o","r","t"," ","{"," ","L","i","n","k"," ","}"," ","f","r","o","m"," ","'","r","e","a","c","t","-","r","o","u","t","e","r","-","d","o","m","'",";">>,
    <<"i","m","p","o","r","t"," ","N","a","v","b","a","r"," ","f","r","o","m"," ","'",".",".","/","c","o","m","p","o","n","e","n","t","s","/","N","a","v","b","a","r","'",";">>,
    <<"i","m","p","o","r","t"," ","S","i","d","e","b","a","r"," ","f","r","o","m"," ","'",".",".","/","c","o","m","p","o","n","e","n","t","s","/","S","i","d","e","b","a","r","'",";">>,
    <<"i","m","p","o","r","t"," ","F","e","a","t","u","r","e","s"," ","f","r","o","m"," ","'",".",".","/","c","o","m","p","o","n","e","n","t","s","/","F","e","a","t","u","r","e","s","'",";">>,
    <<"i","m","p","o","r","t"," ","F","o","o","t","e","r"," ","f","r","o","m"," ","'",".",".","/","c","o","m","p","o","n","e","n","t","s","/","F","o","o","t","e","r","'",";">>,
    <<"i","m","p","o","r","t"," ","'",".","/","M","a","i","n",".","c","s","s","'",";">>,
    <<>>,
    <<"e","x","p","o","r","t"," ","d","e","f","a","u","l","t"," ","f","u","n","c","t","i","o","n"," ","M","a","i","n","(",")"," ","{">>,
    <<" "," ","r","e","t","u","r","n"," ","(">>,
    <<" "," "," "," ","<","d","i","v"," ","c","l","a","s","s","N","a","m","e","=","\"","m","a","i","n","-","p","a","g","e","\"",">">>,
    <<" "," "," "," "," "," ","<","N","a","v","b","a","r"," ","/",">">>,
    <<" "," "," "," "," "," ","<","d","i","v"," ","c","l","a","s","s","N","a","m","e","=","\"","c","o","n","t","a","i","n","e","r","-","f","l","u","i","d","\"",">">>,
    <<" "," "," "," "," "," "," "," ","<","d","i","v"," ","c","l","a","s","s","N","a","m","e","=","\"","r","o","w","\"",">">>,
    <<" "," "," "," "," "," "," "," "," "," ","<","d","i","v"," ","c","l","a","s","s","N","a","m","e","=","\"","c","o","l","-","m","d","-","3","\"",">">>,
    <<" "," "," "," "," "," "," "," "," "," "," "," ","<","S","i","d","e","b","a","r"," ","/",">">>,
    <<" "," "," "," "," "," "," "," "," "," ","<","/","d","i","v",">">>,
    <<" "," "," "," "," "," "," "," "," "," ","<","d","i","v"," ","c","l","a","s","s","N","a","m","e","=","\"","c","o","l","-","m","d","-","9","\"",">">>,
    <<" "," "," "," "," "," "," "," "," "," "," "," ","<","F","e","a","t","u","r","e","s"," ","/",">">>,
    <<" "," "," "," "," "," "," "," "," "," ","<","/","d","i","v",">">>,
    <<" "," "," "," "," "," "," "," ","<","/","d","i","v",">">>,
    <<" "," "," "," "," "," ","<","/","d","i","v",">">>,
    <<" "," "," "," "," "," ","<","F","o","o","t","e","r"," ","/",">">>,
    <<" "," "," "," ","<","/","d","i","v",">">>,
    <<" "," ",")",";">>,
    <<"}">>
>>)

\* page_generator.get_fallback_main_css (lines 248-261)
get_fallback_main_css == JoinNL(<<
    <<".","m","a","i","n","-","p","a","g","e"," ","{">>,
    <<" "," ","m","i","n","-","h","e","i","g","h","t",":"," ","1","0","0","v","h",";">>,
    <<" "," ","b","a","c","k","g","r","o","u","n","d","-","c","o","l","o","r",":"," ","#","f","8","f","9","f","a",";">>,
    <<"}">>,
    <<>>,
    <<".","m","a","i","n","-","p","a","g","e"," ",".","s","i","d","e","b","a","r"," ","{">>,
    <<" "," ","b","a","c","k","g","r","o","u","n","d",":"," ","#","4","f","4","6","e","5",";">>,
    <<" "," ","c","o","l","o","r",":"," ","w","h","i","t","e",";">>,
    <<" "," ","m","i","n","-","h","e","i","g","h","t",":"," ","c","a","l","c","(","1","0","0","v","h"," ","-"," ","7","6","p","x",")",";">>,
    <<"}">>
>>)

\* page_generator.get_fallback_checkout_page (lines 263-302)
get_fallback_checkout_page == JoinNL(<<
    <<"i","m","p","o","r","t"," ","R","e","a","c","t",","," ","{"," ","u","s","e","S","t","a","t","e"," ","}"," ","f","r","o","m"," ","'","r","e","a","c","t","'",";">>,
    <<"i","m","p","o","r","t"," ","{"," ","L","i","n","k"," ","}"," ","f","r","o","m"," ","'","r","e","a","c","t","-","r","o","u","t","e","r","-","d","o","m","'",";">>,
    <<"i","m","p","o","r","t"," ","N","a","v","b","a","r"," ","f","r","o","m"," ","'",".",".","/","c","o","m","p","o","n","e","n","t","s","/","N","a","v","b","a","r","'",";">>,
    <<"i","m","p","o","r","t"," ","F","o","o","t","e","r"," ","f","r","o","m"," ","'",".",".","/","c","o","m","p","o","n","e","n","t","s","/","F","o","o","t","e","r","'",";">>,
    <<"i","m","p","o","r","t"," ","'",".","/","C","h","e","c","k","o","u","t",".","c","s","s","'",";">>,
    <<>>,
    <<"e","x","p","o","r","t"," ","d","e","f","a","u","l","t"," ","f","u","n","c","t","i","o","n"," ","C","h","e","c","k","o","u","t","(",")"," ","{">>,
    <<" "," ","c","o","n","s","t"," ","[","s","t","e","p",","," ","s","e","t","S","t","e","p","]"," ","="," ","u","s","e","S","t","a","t","e","(","1",")",";">>,
    <<" "," ">>,
    <<" "," ","r","e","t","u","r","n"," ","(">>,
    <<" "," "," "," ","<","d","i","v"," ","c","l","a","s","s","N","a","m","e","=","\"","c","h","e","c","k","o","u","t","-","p","a","g","e","\"",">">>,
    <<" "," "," "," "," "," ","<","N","a","v","b","a","r"," ","/",">">>,
    <<" "," "," "," "," "," ","<","d","i","v"," ","c","l","a","s","s","N","a","m","e","=","\"","c","o","n","t","a","i","n","e","r"," ","m","y","-","5","\"",">">>,
    <<" "," "," "," "," "," "," "," ","<","d","i","v"," ","c","l","a","s","s","N","a","m","e","=","\"","r","o","w"," ","j","u","s","t","i","f","y","-","c","o","n","t","e","n","t","-","c","e","n","t","e","r","\"",">">>,
    <<" "," "," "," "," "," "," "," "," "," ","<","d","i","v"," ","c","l","a","s","s","N","a","m","e","=","\"","c","o","l","-","m","d","-","8","\"",">">>,
    <<" "," "," "," "," "," "," "," "," "," "," "," ","<","d","i","v"," ","c","l","a","s","s","N","a","m","e","=","\"","c","a","r","d","\"",">">>,
    <<" "," "," "," "," "," "," "," "," "," "," "," "," "," ","<","d","i","v"," ","c","l","a","s","s","N","a","m","e","=","\"","c","a","r","d","-","b","o","d","y","\"",">">>,
    <<" "," "," "," "," "," "," "," "," "," "," "," "," "," "," "," ","<","h","2"," ","c","l","a","s","s","N","a","m","e","=","\"","t","e","x","t","-","c","e","n","t","e","r"," ","m","b","-","4","\"",">","C","o","m","p","l","e","t","e"," ","Y","o","u","r"," ","O","r","d","e","r","<","/","h","2",">">>,
    <<" "," "," "," "," "," "," "," "," "," "," "," "," "," "," "," ","<","d","i","v"," ","c","l","a","s","s","N","a","m","e","=","\"","c","h","e","c","k","o","u","t","-","f","o","r","m","\"",">">>,
    <<" "," "," "," "," "," "," "," "," "," "," "," "," "," "," "," "," "," ","<","d","i","v"," ","c","l","a","s","s","N","a","m","e","=","\"","m","b","-","3","\"",">">>,
    <<" "," "," "," "," "," "," "," "," "," "," "," "," "," "," "," "," "," "," "," ","<","l","a","b","e","l"," ","c","l","a","s","s","N","a","m","e","=","\"","f","o","r","m","-","l","a","b","e","l","\"",">","E","m","a","i","l","<","/","l","a","b","e","l",">">>,
    <<" "," "," "," "," "," "," "," "," "," "," "," "," "," "," "," "," "," "," "," ","<","i","n","p","u","t"," ","t","y","p","e","=","\"","e","m","a","i","l","\""," ","c","l","a","s","s","N","a","m","e","=","\"","f","o","r","m","-","c","o","n","t","r","o","l","\""," ","/",">">>,
    <<" "," "," "," "," "," "," "," "," "," "," "," "," "," "," "," "," "," ","<","/","d","i","v",">">>,
    <<" "," "," "," "," "," "," "," "," "," "," "," "," "," "," "," "," "," ","<","d","i","v"," ","c","l","a","s","s","N","a","m","e","=","\"","m","b","-","3","\"",">">>,
    <<" "," "," "," "," "," "," "," "," "," "," "," "," "," "," "," "," "," "," "," ","<","l","a","b","e","l"," ","c","l","a","s","s","N","a","m","e","=","\"","f","o","r","m","-","l","a","b","e","l","\"",">","N","a","m","e","<","/","l","a","b","e","l",">">>,
    <<" "," "," "," "," "," "," "," "," "," "," "," "," "," "," "," "," "," "," "," ","<","i","n","p","u","t"," ","t","y","p","e","=","\"","t","e","x","t","\""," ","c","l","a","s","s","N","a","m","e","=","\"","f","o","r","m","-","c","o","n","t","r","o","l","\""," ","/",">">>,
    <<" "," "," "," "," "," "," "," "," "," "," "," "," "," "," "," "," "," ","<","/","d","i","v",">">>,
    <<" "," "," "," "," "," "," "," "," "," "," "," "," "," "," "," "," "," ","<","b","u","t","t","o","n"," ","c","l","a","s","s","N","a","m","e","=","\"","b","t","n"," ","b","t","n","-","p","r","i","m","a","r","y"," ","w","-","1","0","0","\"",">","C","o","m","p","l","e","t","e"," ","O","r","d","e","r","<","/","b","u","t","t","o","n",">">>,
    <<" "," "," "," "," "," "," "," "," "," "," "," "," "," "," "," ","<","/","d","i","v",">">>,
    <<" "," "," "," "," "," "," "," "," "," "," "," "," "," ","<","/","d","i","v",">">>,
    <<" "," "," "," "," "," "," "," "," "," "," "," ","<","/","d","i","v",">">>,
    <<" "," "," "," "," "," "," "," "," "," ","<","/","d","i","v",">">>,
    <<" "," "," "," "," "," "," "," ","<","/","d","i","v",">">>,
    <<" "," "," "," "," "," ","<","/","d","i","v",">">>,
    <<" "," "," "," "," "," ","<","F","o","o","t","e","r"," ","/",">">>,
    <<" "," "," "," ","<","/","d","i","v",">">>,
    <<" "," ",")",";">>,
    <<"}">>
>>)

\* page_generator.get_fallback_checkout_css (lines 304-324)
get_fallback_checkout_css == JoinNL(<<
    <<".","c","h","e","c","k","o","u","t","-","p","a","g","e"," ","{">>,
    <<" "," ","m","i","n","-","h","e","i","g","h","t",":"," ","1","0","0","v","h",";">>,
    <<" "," ","b","a","c","k","g","r","o","u","n","d","-","c","o","l","o","r",":"," ","#","f","8","f","9","f","a",";">>,
    <<"}">>,
    <<>>,
    <<".","c","h","e","c","k","o","u","t","-","p","a","g","e"," ",".","c","a","r","d"," ","{">>,
    <<" "," ","b","o","r","d","e","r",":"," ","n","o","n","e",";">>,
    <<" "," ","b","o","x","-","s","h","a","d","o","w",":"," ","0"," ","1","0","p","x"," ","2","5","p","x"," ","r","g","b","a","(","0",",","0",",","0",",","0",".","1",")",";">>,
    <<" "," ","b","o","r","d","e","r","-","r","a","d","i","u","s",":"," ","1","r","e","m",";">>,
    <<"}">>,
    <<>>,
    <<".","c","h","e","c","k","o","u","t","-","p","a","g","e"," ",".","b","t","n","-","p","r","i","m","a","r","y"," ","{">>,
    <<" "," ","b","a","c","k","g","r","o","u","n","d",":"," ","#","4","f","4","6","e","5",";">>,
    <<" "," ","b","o","r","d","e","r",":"," ","n","o","n","e",";">>,
    <<" "," ","p","a","d","d","i","n","g",":"," ","0",".","7","5","r","e","m",";">>,
    <<" "," ","b","o","r","d","e","r","-","r","a","d","i","u","s",":"," ","0",".","5","r","e","m",";">>,
    <<"}">>
>>)

\* a dict: the empty one, and d[k] = v
EmptyDict == <<>>
Put(d, k, v) == [x \in (DOMAIN d) \cup {k} |-> IF x = k THEN v ELSE d[x]]

\* mutant of css_start: the flags and the depth are kept from the invocation before
css_start_kept(left) == left

\* css_utils.clean_css lines 14-17: in_rule and brace_count are locals, set
\* at every invocation whatever the invocation before left in them
css_start(left) == [ir |-> FALSE, bc |-> 0]

\* css_utils.clean_css lines 12-63 from the flags `start`: fixed_lines and
\* the flags the loop ends with
css_loop_from(css, start) ==
    CleanLinesRange(SplitOnFrom(Replace(css, S_classEq, S_classNameEq), 1, NL), 1,
                    Len(SplitOnFrom(Replace(css, S_classEq, S_classNameEq), 1, NL)),
                    start.ir, start.bc)

\* lines 65-66 on what the loop gave, with the flags it ended with
css_loop_result(l) ==
    [text |-> add_professional_css_patterns(JoinNL(l.out)),
     left |-> [ir |-> l.ir, bc |-> l.bc]]

\* css_utils.clean_css, the loop started from the flags `start`: the text
\* returned and the flags the invocation ends with
clean_css_from(css, start) ==
    IF css = <<>> THEN [text |-> <<>>, left |-> start]
    ELSE css_loop_result(css_loop_from(css, start))

\* workflow.extract_code_and_css lines 103-106 on the pair of lines 86-101
wf_pair_cleaned(r) == <<r[1], IF r[2] # <<>> THEN wf_clean_css(r[2]) ELSE <<>> >>

\* workflow.extract_code_and_css, lines 80-106: the code result and the style
\* block through clean_css
wf_extract_pair(s) == wf_pair_cleaned(wf_extract_code_and_css(s))

\* mutant of wf_edges: the archive is written before the project is compiled
wf_edges_zip_first(n) ==
    CASE n = "components" -> "landing"
      [] n = "landing" -> "main"
      [] n = "main" -> "checkout"
      [] n = "checkout" -> "zip"
      [] n = "zip" -> "compile"
      [] n = "compile" -> "returned"

\* workflow.build_workflow lines 864-870: the edge leaving node n
wf_edges(n) ==
    CASE n = "components" -> "landing"
      [] n = "landing" -> "main"
      [] n = "main" -> "checkout"
      [] n = "checkout" -> "compile"
      [] n = "compile" -> "zip"
      [] n = "zip" -> "returned"

\* page_generator.generate_pages lines 331-333: the page generated after n
generate_pages_next(n) ==
    CASE n = "landing" -> "main"
      [] n = "main" -> "checkout"

\* the order in which the entry points of component_generator.py,
\* page_generator.py and project_compiler.py are called: components, pages,
\* compile, archive
mod_edges(n) ==
    CASE n = "components" -> "landing"
      [] n \in {"landing", "main"} -> generate_pages_next(n)
      [] n = "checkout" -> "compile"
      [] n = "compile" -> "zip"
      [] n = "zip" -> "returned"

edges(v, n) == IF v = "workflow" THEN wf_edges(n) ELSE mod_edges(n)

\* the page a page node generates
PageOf(n) ==
    CASE n = "landing" -> "Landing" [] n = "main" -> "Main" [] n = "checkout" -> "Checkout"

\* compile_project: the generated files of react_project, <<directory, name,
\* extension>> -> text (the files that do not depend on the generated texts,
\* App.jsx, package.json and the like, are left out)
ProjectTree(st) ==
    LET paths == {<<"components", n, "jsx">> : n \in DOMAIN st.components}
                 \cup {<<"components", n, "css">> : n \in DOMAIN st.component_css}
                 \cup {<<"pages", n, "jsx">> : n \in DOMAIN st.pages}
                 \cup {<<"pages", n, "css">> : n \in DOMAIN st.page_css}
    IN  [p \in paths |->
            IF p[1] = "components"
            THEN (IF p[3] = "jsx" THEN st.components[p[2]] ELSE st.component_css[p[2]])
            ELSE (IF p[3] = "jsx" THEN st.pages[p[2]] ELSE st.page_css[p[2]])]

\* workflow.create_zip line 839: the one archive name
wf_zip_path == <<"react_website.zip">>

\* project_compiler.create_zip_file lines 782-785: the archive name holds the
\* time in whole seconds
zip_path_at(t) == <<"output", "react_website_", t, ".zip">>

\* state["zip_path"] is None
NoPath == <<>>

\* what a call of the language model gives: an exception or a response text
Raises == [raises |-> TRUE, content |-> <<>>]
Answer(content) == [raises |-> FALSE, content |-> content]

\* a response with prose, a jsx block and a css block (the scenario above)
R_pair == Render(E2E_segs)
\* a response without any fence
R_prose == <<"S", "o", "r", "r", "y", ".">>
\* a response whose css block opens a rule and does not close it
R_open == Render(<<Block(T_jsx, <<"x">>), Block(T_css, <<"a", SP, "{">>)>>)
\* a response with a css block of one declaration and no code block
R_decl == Render(<<Block(T_css, <<"b", ":", SP, "c">>)>>)
\* a response with a code block only
R_code == Render(<<Block(T_jsx, <<"x">>)>>)

\* the outcomes considered for a component and for a page
RunAnswers ==
    [component |-> {Raises, Answer(R_pair), Answer(R_prose), Answer(R_open), Answer(R_decl)},
     page |-> {Raises, Answer(R_pair)}]
ArchiveAnswers ==
    [component |-> {Raises, Answer(R_code)}, page |-> {Raises, Answer(R_code)}]

\* generate_website lines 890-909: the initial AgentState, with the position
\* of the run (node, i) and the record of what was done to each artifact
\*   node         the graph node to run next, or idle / returned / served /
\*                aborted (an exception left the run) / error (HTTP 500)
\*   i            the position of the component loop, 0 before the loop
\*   served       the run whose archive the response of this run carried
\*   trace        the nodes that have run to their end, in order
\*   attempted    the artifacts the language model was called for
\*   asked        artifact -> the response text the language model gave
\*   code_cleans  artifact -> how often clean_imports was applied to its code
\*   style_cleans artifact -> how often clean_css was applied to its style
\*   left         the flags the last invocation of css_utils.clean_css ended with
initial_state ==
    [node |-> "idle", i |-> 0,
     components |-> EmptyDict, component_css |-> EmptyDict,
     pages |-> EmptyDict, page_css |-> EmptyDict,
     react_project |-> [compiled |-> FALSE, tree |-> EmptyDict],
     zip_path |-> NoPath,
     served |-> 0,
     trace |-> <<>>, attempted |-> {}, asked |-> EmptyDict,
     code_cleans |-> EmptyDict, style_cleans |-> EmptyDict,
     left |-> [ir |-> FALSE, bc |-> 0]]

textVars == <<segs, text, pc, js_code, css_code, code, cleaned, recleaned,
              css_in, css_lines, line_no, fixed_lines, in_rule, in_media,
              in_keyframes, brace_count, result, result2>>

\* no response and no style text is being processed on its own
TextIdle ==
    /\ segs = <<>>
    /\ text = <<>>
    /\ pc = "run"
    /\ js_code = <<>>
    /\ css_code = <<>>
    /\ code = <<>>
    /\ cleaned = <<>>
    /\ recleaned = <<>>
    /\ StyleIdle

\* one request, every outcome of the language model
InitRun ==
    /\ TextIdle
    /\ variant \in {"workflow", "modular"}
    /\ answers = RunAnswers
    /\ state = [r \in {1} |-> initial_state]
    /\ files = EmptyDict
    /\ now = 0

\* main.generate_site lines 71-84 and generate_website lines 889-910: a
\* request arrives and the run is started
GenerateWebsite(r) ==
    /\ state[r].node = "idle"
    /\ state' = [state EXCEPT ![r].node = "components"]
    /\ UNCHANGED <<variant, answers, files, now>>
    /\ UNCHANGED textVars

\* workflow.generate_components lines 375-376: both dicts are emptied
WfComponentsBegin(r) ==
    /\ variant = "workflow"
    /\ state[r].node = "components"
    /\ state[r].i = 0
    /\ state' = [state EXCEPT ![r].components = EmptyDict,
                              ![r].component_css = EmptyDict,
                              ![r].i = 1]
    /\ UNCHANGED <<variant, answers, files, now>>
    /\ UNCHANGED textVars

\* the loop of generate_components is at a name
AtComponent(r) ==
    /\ state[r].node = "components"
    /\ state[r].i \in 1..MaxComponents

\* the AgentState after an artifact was stored: its code and style in the
\* dicts of components or of pages, and the record of what was done to it
Stored(st, name, is_page, content, stored_code, stored_css, n_code, n_css) ==
    [st EXCEPT
        !.components = IF ~is_page /\ stored_code.put THEN Put(@, name, stored_code.text) ELSE @,
        !.component_css = IF ~is_page /\ stored_css.put THEN Put(@, name, stored_css.text) ELSE @,
        !.pages = IF is_page /\ stored_code.put THEN Put(@, name, stored_code.text) ELSE @,
        !.page_css = IF is_page /\ stored_css.put THEN Put(@, name, stored_css.text) ELSE @,
        !.attempted = @ \cup {name},
        !.asked = Put(@, name, content),
        !.code_cleans = Put(@, name, n_code),
        !.style_cleans = Put(@, name, n_css)]

\* workflow.py lines 412-414 (and 466-468, 500-502, 534-536) on the pair
\* extract_code_and_css returned: clean_imports and clean_css are applied to
\* it and the results stored; with what extract_code_and_css did (lines 96-97
\* and 103-104) a code or style that is not empty has been cleaned twice
wf_store(st, name, is_page, content, pair) ==
    Stored(st, name, is_page, content,
           [put |-> TRUE, text |-> wf_clean_imports(pair[1])],
           [put |-> TRUE, text |-> wf_clean_css(pair[2])],
           IF pair[1] # <<>> THEN 2 ELSE 1,
           IF pair[2] # <<>> THEN 2 ELSE 1)

\* workflow.generate_components lines 378-414, the call answered
WfComponent(r) ==
    /\ variant = "workflow"
    /\ AtComponent(r)
    /\ \E a \in answers.component :
         /\ ~a.raises
         /\ state' = [state EXCEPT
                ![r] = [wf_store(@, LoopNames(variant)[@.i], FALSE, a.content,
                                 wf_extract_pair(a.content))
                           EXCEPT !.i = @ + 1]]
    /\ UNCHANGED <<variant, answers, files, now>>
    /\ UNCHANGED textVars

\* workflow.generate_components line 379, the call raising: nothing catches
\* the exception before main.generate_site (lines 110-113, HTTP 500)
WfComponentRaises(r) ==
    /\ variant = "workflow"
    /\ AtComponent(r)
    /\ Raises \in answers.component
    /\ state' = [state EXCEPT
            ![r].attempted = @ \cup {LoopNames(variant)[state[r].i]},
            ![r].node = "aborted"]
    /\ UNCHANGED <<variant, answers, files, now>>
    /\ UNCHANGED textVars

\* component_generator.generate_components lines 10-15: the logo is
\* generated from a template and stored
ComponentsBegin(r) ==
    /\ variant = "modular"
    /\ state[r].node = "components"
    /\ state[r].i = 0
    /\ state' = [state EXCEPT ![r].components = Put(EmptyDict, "Logo", logo_jsx),
                              ![r].component_css = Put(EmptyDict, "Logo", logo_css),
                              ![r].i = 1]
    /\ UNCHANGED <<variant, answers, files, now>>
    /\ UNCHANGED textVars

\* component_generator.py lines 196-203 on the pair extract_code_and_css
\* returned: a code that is not empty is stored through clean_imports, which
\* extract_code_and_css has applied already (code_utils.py line 20), and a
\* style that is not empty is stored through clean_css
store_component(st, name, content, pair, css) ==
    [Stored(st, name, FALSE, content,
            [put |-> pair[1] # <<>>, text |-> clean_imports(pair[1])],
            [put |-> pair[2] # <<>>, text |-> css.text],
            IF pair[1] # <<>> THEN 2 ELSE 1,
            IF pair[2] # <<>> THEN 1 ELSE 0)
        EXCEPT !.left = IF pair[2] # <<>> THEN css.left ELSE @]

\* the same with the style of the pair through clean_css
generate_component(st, name, content, pair) ==
    store_component(st, name, content, pair, clean_css_from(pair[2], css_start(st.left)))

\* component_generator.generate_components lines 159-206, the call answered
Component(r) ==
    /\ variant = "modular"
    /\ AtComponent(r)
    /\ \E a \in answers.component :
         /\ ~a.raises
         /\ state' = [state EXCEPT
                ![r] = [generate_component(@, LoopNames(variant)[@.i], a.content,
                                           extract_code_and_css(a.content))
                           EXCEPT !.i = @ + 1]]
    /\ UNCHANGED <<variant, answers, files, now>>
    /\ UNCHANGED textVars

\* component_generator.generate_components lines 208-230, the call raising:
\* the placeholder component and its style are stored
ComponentRaises(r) ==
    /\ variant = "modular"
    /\ AtComponent(r)
    /\ Raises \in answers.component
    /\ LET name == LoopNames(variant)[state[r].i]
       IN  state' = [state EXCEPT
               ![r].components = Put(@, name, fallback_component(name)),
               ![r].component_css = Put(@, name, fallback_component_css(name)),
               ![r].attempted = @ \cup {name},
               ![r].i = @ + 1]
    /\ UNCHANGED <<variant, answers, files, now>>
    /\ UNCHANGED textVars

\* the loop has gone through its names and generate_components returns
\* (workflow.py line 415, component_generator.py lines 232-233)
ComponentsReturn(r) ==
    /\ state[r].node = "components"
    /\ state[r].i > MaxComponents
    /\ state' = [state EXCEPT ![r].node = edges(variant, "components"),
                              ![r].trace = Append(@, "components")]
    /\ UNCHANGED <<variant, answers, files, now>>
    /\ UNCHANGED textVars

\* a page node is to run
AtPage(r) == state[r].node \in {"landing", "main", "checkout"}

\* workflow.generate_landing_page, generate_main_page, generate_checkout_page
\* (lines 417-537), the call answered: as for a component, the pair is
\* cleaned by extract_code_and_css and again when it is stored
WfPage(r) ==
    /\ variant = "workflow"
    /\ AtPage(r)
    /\ \E a \in answers.page :
         /\ ~a.raises
         /\ state' = [state EXCEPT
                ![r] = [wf_store(@, PageOf(@.node), TRUE, a.content,
                                 wf_extract_pair(a.content))
                           EXCEPT !.trace = Append(@, state[r].node),
                                  !.node = wf_edges(@)]]
    /\ UNCHANGED <<variant, answers, files, now>>
    /\ UNCHANGED textVars

\* the same functions, the call raising: the exception leaves the run
WfPageRaises(r) ==
    /\ variant = "workflow"
    /\ AtPage(r)
    /\ Raises \in answers.page
    /\ state' = [state EXCEPT ![r].attempted = @ \cup {PageOf(state[r].node)},
                              ![r].node = "aborted"]
    /\ UNCHANGED <<variant, answers, files, now>>
    /\ UNCHANGED textVars

\* page_generator.py lines 59-61 (and 107-109, 153-155) on the pair
\* extract_code_and_css returned: the code is stored through clean_imports a
\* second time, the style through clean_css, empty or not
store_page(st, name, content, pair, css) ==
    [Stored(st, name, TRUE, content,
            [put |-> TRUE, text |-> clean_imports(pair[1])],
            [put |-> TRUE, text |-> css.text],
            2, 1)
        EXCEPT !.left = css.left]

\* the same with the style of the pair through clean_css
generate_page(st, name, content, pair) ==
    store_page(st, name, content, pair, clean_css_from(pair[2], css_start(st.left)))

\* page_generator.generate_landing_page lines 19-62 (and the main and checkout
\* pages alike), the call answered
Page(r) ==
    /\ variant = "modular"
    /\ AtPage(r)
    /\ \E a \in answers.page :
         /\ ~a.raises
         /\ state' = [state EXCEPT
                ![r] = [generate_page(@, PageOf(@.node), a.content,
                                      extract_code_and_css(a.content))
                           EXCEPT !.trace = Append(@, state[r].node),
                                  !.node = mod_edges(@)]]
    /\ UNCHANGED <<variant, answers, files, now>>
    /\ UNCHANGED textVars

\* the fallback page and style of a page (page_generator.py lines 166-324)
fallback_page(name) ==
    CASE name = "Landing" -> get_fallback_landing_page
      [] name = "Main" -> get_fallback_main_page
      [] name = "Checkout" -> get_fallback_checkout_page
fallback_page_css(name) ==
    CASE name = "Landing" -> get_fallback_landing_css
      [] name = "Main" -> get_fallback_main_css
      [] name = "Checkout" -> get_fallback_checkout_css

\* page_generator.generate_landing_page lines 64-68 (and the main and checkout
\* pages alike), the call raising: the fallback page is stored
PageRaises(r) ==
    /\ variant = "modular"
    /\ AtPage(r)
    /\ Raises \in answers.page
    /\ LET name == PageOf(state[r].node)
       IN  state' = [state EXCEPT
               ![r].pages = Put(@, name, fallback_page(name)),
               ![r].page_css = Put(@, name, fallback_page_css(name)),
               ![r].attempted = @ \cup {name},
               ![r].trace = Append(@, state[r].node),
               ![r].node = mod_edges(@)]
    /\ UNCHANGED <<variant, answers, files, now>>
    /\ UNCHANGED textVars

\* workflow.compile_project (lines 539-835) and
\* project_compiler.compile_project (lines 7-765): react_project is built
\* from the four dicts
CompileProject(r) ==
    /\ state[r].node = "compile"
    /\ state' = [state EXCEPT
            ![r].react_project = [compiled |-> TRUE, tree |-> ProjectTree(state[r])],
            ![r].trace = Append(@, "compile"),
            ![r].node = edges(variant, "compile")]
    /\ UNCHANGED <<variant, answers, files, now>>
    /\ UNCHANGED textVars

\* workflow.create_zip lines 837-853: the archive is written to
\* "react_website.zip" in the working directory, over any file of that name
WfCreateZip(r) ==
    /\ variant = "workflow"
    /\ state[r].node = "zip"
    /\ files' = Put(files, wf_zip_path, r)
    /\ state' = [state EXCEPT ![r].zip_path = wf_zip_path,
                              ![r].trace = Append(@, "zip"),
                              ![r].node = wf_edges("zip")]
    /\ UNCHANGED <<variant, answers, now>>
    /\ UNCHANGED textVars

\* project_compiler.create_zip_file lines 767-809 (the write is taken to
\* succeed): without a project nothing is written; otherwise the archive is
\* written to the name of the current second, over any file of that name
CreateZipFile(r) ==
    /\ variant = "modular"
    /\ state[r].node = "zip"
    /\ IF ~state[r].react_project.compiled
       THEN /\ state' = [state EXCEPT ![r].trace = Append(@, "zip"),
                                      ![r].node = mod_edges("zip")]
            /\ UNCHANGED files
       ELSE /\ files' = Put(files, zip_path_at(now), r)
            /\ state' = [state EXCEPT ![r].zip_path = zip_path_at(now),
                                      ![r].trace = Append(@, "zip"),
                                      ![r].node = mod_edges("zip")]
    /\ UNCHANGED <<variant, answers, now>>
    /\ UNCHANGED textVars

\* a second passes; the time is read by create_zip_file only, so the seconds
\* are counted where a run is about to read them
Tick ==
    /\ variant = "modular"
    /\ now < MaxClock
    /\ \E r \in DOMAIN state : state[r].node = "zip"
    /\ now' = now + 1
    /\ UNCHANGED <<variant, answers, state, files>>
    /\ UNCHANGED textVars

\* main.generate_site lines 86-106: the file zip_path names is sent as the
\* response; without a path or a file the request ends in HTTP 500
Serve(r) ==
    /\ state[r].node = "returned"
    /\ IF state[r].zip_path = NoPath \/ state[r].zip_path \notin DOMAIN files
       THEN state' = [state EXCEPT ![r].node = "error"]
       ELSE state' = [state EXCEPT ![r].served = files[state[r].zip_path],
                                   ![r].node = "served"]
    /\ UNCHANGED <<variant, answers, files, now>>
    /\ UNCHANGED textVars

RunStep ==
    \E r \in DOMAIN state :
        \/ GenerateWebsite(r)
        \/ WfComponentsBegin(r)
        \/ WfComponent(r)
        \/ WfComponentRaises(r)
        \/ ComponentsBegin(r)
        \/ Component(r)
        \/ ComponentRaises(r)
        \/ ComponentsReturn(r)
        \/ WfPage(r)
        \/ WfPageRaises(r)
        \/ Page(r)
        \/ PageRaises(r)
        \/ CompileProject(r)
        \/ WfCreateZip(r)
        \/ CreateZipFile(r)
        \/ Serve(r)

NextRun == RunStep \/ Tick

SpecRun == InitRun /\ [][NextRun]_vars

\* the requests in flight together, each call answered with code or failing
InitArchive ==
    /\ TextIdle
    /\ variant \in {"workflow", "modular"}
    /\ answers = ArchiveAnswers
    /\ state = [r \in RunIds |-> initial_state]
    /\ files = EmptyDict
    /\ now = 0

SpecArchive == InitArchive /\ [][NextRun]_vars

(***************************************************************************)
(* Claims about the generation run                                         *)
(***************************************************************************)
\* the nodes after generate_components, and the positions after the graph
AfterComponents == {"landing", "main", "checkout", "compile", "zip", "returned", "served", "error"}
AfterGeneration == {"compile", "zip", "returned", "served", "error"}

\* the artifacts the language model is called for in a run
Artifacts(v) == {LoopNames(v)[k] : k \in 1..MaxComponents} \cup PageNames

\* C23: a failure while generating one artifact (the call raises, or the
\* response holds no block) does not abort the run: every remaining component
\* and page is still attempted and the run goes on to compile and archive.
C23_FailureDoesNotAbort ==
    \A r \in DOMAIN state :
        /\ state[r].node # "aborted"
        /\ state[r].node \in AfterGeneration => state[r].attempted = Artifacts(variant)

\* what holds of component_generator.py and page_generator.py, where every
\* call is inside a try: no run is aborted
ModularFailureDoesNotAbort ==
    variant = "modular" => C23_FailureDoesNotAbort

\* C24: for each artifact the orchestration applies the code sanitizer exactly
\* once and the style sanitizer exactly once before the pair is stored.
C24_SanitizedExactlyOnce ==
    \A r \in DOMAIN state :
        \A name \in DOMAIN state[r].asked :
            /\ name \in (DOMAIN state[r].components) \cup (DOMAIN state[r].pages)
                   => state[r].code_cleans[name] = 1
            /\ name \in (DOMAIN state[r].component_css) \cup (DOMAIN state[r].page_css)
                   => state[r].style_cleans[name] = 1

\* what the code does: a stored code has been through clean_imports twice in
\* both copies, a stored style through clean_css once in css_utils.py's
\* callers and, unless it is empty, twice in workflow.py
SanitizedTwice ==
    \A r \in DOMAIN state :
        \A name \in DOMAIN state[r].asked :
            /\ (name \in (DOMAIN state[r].components) \cup (DOMAIN state[r].pages)
                    /\ (variant = "modular" \/ state[r].code_cleans[name] # 1))
                   => state[r].code_cleans[name] = 2
            /\ (name \in (DOMAIN state[r].component_css) \cup (DOMAIN state[r].page_css)
                    /\ variant = "modular")
                   => state[r].style_cleans[name] = 1

\* the style stored for an artifact of a run, component or page
StoredStyle(st, name) ==
    IF name \in PageNames THEN st.page_css[name] ELSE st.component_css[name]
HasStoredStyle(st, name) ==
    name \in (DOMAIN st.component_css) \cup (DOMAIN st.page_css)

\* C25: the style normalizer keeps no state between invocations. Whatever
\* was processed before, the style stored for an artifact is the one a fresh
\* invocation (Outside, depth 0) gives for the style block of its response,
\* and two artifacts with the same response get the same style, wherever they
\* come in the order of processing.
C25_SanitizerKeepsNoState ==
    \A r \in DOMAIN state :
        variant = "modular" =>
            /\ \A name \in DOMAIN state[r].asked :
                   HasStoredStyle(state[r], name) =>
                       StoredStyle(state[r], name)
                           = clean_css(extract_code_and_css(state[r].asked[name])[2])
            /\ \A n1, n2 \in DOMAIN state[r].asked :
                   (/\ state[r].asked[n1] = state[r].asked[n2]
                    /\ HasStoredStyle(state[r], n1)
                    /\ HasStoredStyle(state[r], n2))
                       => StoredStyle(state[r], n1) = StoredStyle(state[r], n2)

\* C25 witness: the first component's style block opened a rule and left it
\* open, the second component's style block is the declaration "b: c", and
\* the style stored for the second ends in "b: c" as it was, unrepaired.
C25_Witness ==
    /\ variant = "modular"
    /\ state[1].i = 3
    /\ state[1].asked[LoopNames(variant)[1]] = R_open
    /\ state[1].asked[LoopNames(variant)[2]] = R_decl
    /\ EndsWith(state[1].component_css[LoopNames(variant)[2]], <<NL, NL, "b", ":", SP, "c">>)
    /\ state[1].left = [ir |-> FALSE, bc |-> 0]

\* the nodes of the graph in the order of its edges
NodeOrder == <<"components", "landing", "main", "checkout", "compile", "zip">>
IsPageNode(n) == n \in {"landing", "main", "checkout"}

\* C26: the steps of a run execute in the order components, landing page,
\* main page, checkout page, compile, archive: the nodes that have run are a
\* prefix of that order, the pages are generated landing, main, checkout,
\* the archive is written only after the project was compiled, and the
\* project is compiled only after every pair has been inserted.
C26_StepsInOrder ==
    \A r \in DOMAIN state :
        /\ variant = "workflow" =>
               /\ Len(state[r].trace) <= Len(NodeOrder)
               /\ state[r].trace = SubSeq(NodeOrder, 1, Len(state[r].trace))
               /\ state[r].zip_path # NoPath => state[r].react_project.compiled
               /\ state[r].react_project.compiled =>
                      /\ DOMAIN state[r].components = RequestedNames(variant)
                      /\ DOMAIN state[r].component_css = RequestedNames(variant)
                      /\ DOMAIN state[r].pages = PageNames
                      /\ DOMAIN state[r].page_css = PageNames
        /\ SelectSeq(state[r].trace, IsPageNode)
               = SubSeq(<<"landing", "main", "checkout">>, 1,
                        Len(SelectSeq(state[r].trace, IsPageNode)))

\* C26 witness: a run of the graph has returned with its archive written,
\* all six nodes having run.
C26_Witness ==
    /\ variant = "workflow"
    /\ state[1].node = "returned"
    /\ state[1].trace = NodeOrder
    /\ state[1].zip_path = wf_zip_path
    /\ state[1].react_project.compiled

\* C29: after generate_components has returned, the components mapping holds
\* a code entry for every requested component name, whatever the outcome for
\* that name was.
C29_EveryComponentHasEntry ==
    \A r \in DOMAIN state :
        state[r].node \in AfterComponents
            => RequestedNames(variant) \subseteq DOMAIN state[r].components

\* what component_generator.generate_components guarantees: an entry for the
\* logo and for every name whose call raised or whose response held code
EntryUnlessExtractionMiss ==
    \A r \in DOMAIN state :
        (variant = "modular" /\ state[r].node \in AfterComponents) =>
            \A name \in RequestedNames(variant) :
                name \in DOMAIN state[r].components
                    \/ (/\ name \in DOMAIN state[r].asked
                        /\ extract_code_and_css(state[r].asked[name])[1] = <<>>)

\* C30: the archive paths two runs write are distinct, so the file a run's
\* zip_path names was written by that run and is the one its response carries.
C30_ArchivePathsDistinct ==
    /\ \A r1, r2 \in DOMAIN state :
           (r1 # r2 /\ state[r1].zip_path # NoPath /\ state[r2].zip_path # NoPath)
               => state[r1].zip_path # state[r2].zip_path
    /\ \A r \in DOMAIN state : state[r].node = "served" => state[r].served = r

\* the second half alone: the response of a run carries the run's own archive
ServesOwnArchive ==
    \A r \in DOMAIN state : state[r].node = "served" => state[r].served = r

====
